---- MODULE Spec2Model ----
(***************************************************************************)
(* Model of the gateway protocol client of clawd-dashboard                 *)
(* (src/src/gateway/client.ts, class GatewayClient) together with the      *)
(* transports it opens, the promises it hands out and the browser storage  *)
(* it reads and writes; of the store that drives the client               *)
(* (src/src/store/gateway.ts); of the device identity                      *)
(* (src/src/gateway/crypto.ts); and of the widget server whose code is in  *)
(* src/tests/api.test.ts.  Each part has specifications of its own; the    *)
(* variables of the other parts stay as they start.                        *)
(*                                                                         *)
(* JavaScript runs one task at a time.  A task is a public call or a       *)
(* transport event handler; it runs to completion and is followed by the   *)
(* promise continuations it scheduled (the microtask queue), before the    *)
(* next task starts.  Every task below is enabled only when the microtask  *)
(* queue is empty, and RunMicrotask runs the head of the queue.            *)
(***************************************************************************)
EXTENDS Integers, Sequences, FiniteSets, TLC

\* Bounds of the model.
MaxWs == 2          \* transports the client opens
MaxReq == 2         \* request ids the client allocates
MaxHs == 1          \* handshakes started by connect.challenge events
MaxOn == 2          \* calls of on()
MaxChat == 4        \* operations on the chat store
MaxLog == 3         \* operations on the chat store when they are logged
MaxChallenges == 2  \* handshakes, where challenges may follow one another
MaxCalls == 3       \* calls of getOrCreateDeviceIdentity()
MaxHttp == 3        \* requests to /api/widgets
MaxSse == 2         \* connections to /api/widgets/events

VARIABLES
  ws,               \* GatewayClient.ws: current transport, 0 is null
  pendingRequests,  \* GatewayClient.pendingRequests: ids in the correlation table
  state,            \* GatewayClient.state
  challenge,        \* GatewayClient.challenge: 0 is null, -1 undefined, else the nonce
  deviceToken,      \* GatewayClient._deviceToken, "" is null
  connected,        \* GatewayClient.connected
  reqSeq,           \* GatewayClient.reqSeq
  urlOk,            \* whether new WebSocket(options.url) succeeds
  optToken,         \* options.token, "" is undefined
  sockets,          \* the WebSocket objects created so far
  nws,              \* number of WebSocket objects created
  req,              \* the promise of every request made: method, transport, outcome
  hs,               \* the doHandshake() invocations and where each is suspended
  nhs,              \* number of doHandshake() invocations
  lsIdentity,       \* localStorage['clawd-dashboard:device-keypair'], 0 is absent
  lsToken,          \* localStorage['clawd-device-token:<id>'], "" is absent
  microtasks,       \* promise continuations scheduled by the running task
  lastTask,         \* the task that ran last (or that the microtasks belong to)
  effects,          \* what that task and its continuations did, in order
  eventHandlers,    \* GatewayClient.eventHandlers: per event name, handlers in insertion order
  unsubs,           \* the unsubscribe closures on() has returned, in call order
  activeSessionKey, \* store: activeSessionKey
  sessionChats,     \* store: sessionChats, per session key
  runText,          \* per session and run: the text of its deltas since the run last ended
  chatLog,          \* per session: the operations applied to it, when they are logged
  nchat,            \* number of operations on the chat store
  keypairItem,      \* localStorage['clawd-dashboard:device-keypair'], the text as stored
  lsReadable,       \* whether localStorage.getItem returns rather than throws
  idCalls,          \* the calls of getOrCreateDeviceIdentity(): where each is, what it returned
  nkeys,            \* number of key pairs generateKey() has produced
  idWrites,         \* number of writes of the stored identity
  widgetsFile,      \* server: the text of widgets.json
  sseClients,       \* server: the Set sseClients, by subscriber
  sse,              \* the subscribers of /api/widgets/events: connection and messages received
  http,             \* the requests made to /api/widgets: body, progress and response
  nhttp,            \* number of requests made
  lastPut,          \* the documents of the PUTs answered 200, latest last
  watchPending      \* server: the debounce timer of the file watcher is armed

clientVars == <<ws, pendingRequests, state, challenge, deviceToken, connected, reqSeq>>
envVars == <<urlOk, optToken, sockets, nws, req, hs, nhs, lsIdentity, lsToken>>
handlerVars == <<eventHandlers, unsubs>>
storeVars == <<activeSessionKey, sessionChats, runText, chatLog, nchat>>
identityVars == <<keypairItem, lsReadable, idCalls, nkeys, idWrites>>
widgetVars == <<widgetsFile, sseClients, sse, http, nhttp, lastPut, watchPending>>
pageVars == <<clientVars, envVars, microtasks, lastTask, effects, handlerVars, storeVars>>
vars == <<ws, pendingRequests, state, challenge, deviceToken, connected, reqSeq,
          urlOk, optToken, sockets, nws, req, hs, nhs, lsIdentity, lsToken,
          microtasks, lastTask, effects, eventHandlers, unsubs,
          activeSessionKey, sessionChats, runText, chatLog, nchat,
          keypairItem, lsReadable, idCalls, nkeys, idWrites,
          widgetsFile, sseClients, sse, http, nhttp, lastPut, watchPending>>

ClientState == {"disconnected", "connecting", "authenticating", "connected", "error"}

\* Identity 1 is the one found in storage at start; handshake h generates h + 1.
Idents == 1..(MaxHs + MaxChallenges)
OkPayloads == {"", "tok1"}                           \* result.auth?.deviceToken
ErrTexts == {"unauthorized", "pairing required"}     \* frame.error.message
CallerMethods == {"chat.send"}
CloseReason == "code 1006"
CtorError == "SyntaxError"

\* One observable effect: a callback, a settled promise, a frame written, a storage write.
Eff(e, a, n) == [e |-> e, a |-> a, n |-> n]

\* The task that ran: its kind, its transport, its request or handshake, and
\* whether it found what it looked for (a transport to replace, a handler, an entry).
Task(op, t, id, hit) == [op |-> op, t |-> t, id |-> id, hit |-> hit]

NoSocket == [readyState |-> "none", onmessage |-> FALSE, onerror |-> FALSE, onclose |-> FALSE]
NewSocket == [readyState |-> "connecting", onmessage |-> TRUE, onerror |-> TRUE, onclose |-> TRUE]
NoReq == [method |-> "none", ws |-> 0, hs |-> 0, outcome |-> "none", settles |-> 0]
NoHs == [stage |-> "none", ws |-> 0, ident |-> 0, nonce |-> 0, token |-> "",
         device |-> FALSE, req |-> 0]

\* WebSocket.close(): CONNECTING and OPEN become CLOSING, the rest is left alone.
\* "failing" is CLOSING reached without ever being OPEN: no frame was or will
\* be received.  "closing" is CLOSING after OPEN: frames the peer sent before it
\* saw the close are still in flight.
CloseCalled(rs) ==
  IF rs = "connecting" THEN "failing" ELSE IF rs = "open" THEN "closing" ELSE rs

\* A transport that is not closed or closing.
Live(t) == sockets[t].readyState \in {"connecting", "open"}

\* A transport on which a frame can arrive.
Delivering(t) == sockets[t].readyState \in {"open", "closing"}

\* A transport whose close event is still to come.
Unclosed(t) == sockets[t].readyState \in {"connecting", "open", "closing", "failing"}

\* The ids of S in increasing order: the iteration order of the Map, whose keys
\* are inserted in reqSeq order.
RECURSIVE InOrder(_)
InOrder(S) ==
  IF S = {} THEN <<>>
  ELSE LET m == CHOOSE x \in S : \A y \in S : x <= y
       IN <<m>> \o InOrder(S \ {m})

\* msg.includes('pairing') || ... || msg.includes('not approved')
IsPairingText(msg) == msg \in {"pairing required"}

\* Every event name a frame can carry, and the handlers callers register.
AllEvents == {"connect.challenge", "chat", "tick"}
Handlers == {1, 2}

\* Session keys of the store, and a session the store holds no chat for:
\* getChat() reads it as { messages: [], streaming: false, streamingRunId: null }.
\* A streamingRunId of "" is null.
SessionKeys == {"A", "B"}
RunIds == {"r1", "r2"}
NoChat == [messages |-> <<>>, streaming |-> FALSE, streamingRunId |-> ""]

(***************************************************************************)
(* Device identity (crypto.ts).  A string is a sequence of one-character   *)
(* strings and a buffer a sequence of bytes.  Keys and digests are two     *)
(* bytes long: enough for base64 padding, for the characters '-' and '_'   *)
(* and for a byte below 16 to occur.                                       *)
(***************************************************************************)
B64Alphabet ==
  <<"A","B","C","D","E","F","G","H","I","J","K","L","M","N","O","P",
    "Q","R","S","T","U","V","W","X","Y","Z","a","b","c","d","e","f",
    "g","h","i","j","k","l","m","n","o","p","q","r","s","t","u","v",
    "w","x","y","z","0","1","2","3","4","5","6","7","8","9","+","/">>
HexDigits == <<"0","1","2","3","4","5","6","7","8","9","a","b","c","d","e","f">>

\* s.replace(/a/g, b) for one-character a; b = <<>> removes the character.
RECURSIVE ReplaceAll(_, _, _)
ReplaceAll(s, a, b) ==
  IF s = <<>> THEN <<>>
  ELSE (IF Head(s) = a THEN b ELSE <<Head(s)>>) \o ReplaceAll(Tail(s), a, b)

\* s.padEnd(n, c) and s.padStart(n, c) for one-character c.
RECURSIVE PadEnd(_, _, _)
PadEnd(s, n, c) == IF Len(s) >= n THEN s ELSE PadEnd(s \o <<c>>, n, c)
RECURSIVE PadStart(_, _, _)
PadStart(s, n, c) == IF Len(s) >= n THEN s ELSE PadStart(<<c>> \o s, n, c)

\* btoa(): three bytes make four characters, a last group of one or two bytes
\* is padded with '='.
RECURSIVE Btoa(_)
Btoa(b) ==
  IF Len(b) = 0 THEN <<>>
  ELSE IF Len(b) = 1
    THEN <<B64Alphabet[(b[1] \div 4) + 1], B64Alphabet[(b[1] % 4) * 16 + 1], "=", "=">>
  ELSE IF Len(b) = 2
    THEN <<B64Alphabet[(b[1] \div 4) + 1],
           B64Alphabet[(b[1] % 4) * 16 + (b[2] \div 16) + 1],
           B64Alphabet[(b[2] % 16) * 4 + 1], "=">>
  ELSE <<B64Alphabet[(b[1] \div 4) + 1],
         B64Alphabet[(b[1] % 4) * 16 + (b[2] \div 16) + 1],
         B64Alphabet[(b[2] % 16) * 4 + (b[3] \div 64) + 1],
         B64Alphabet[(b[3] % 64) + 1]>> \o Btoa(SubSeq(b, 4, Len(b)))

\* atob() on text whose length is a multiple of four: the value of each
\* character is its place in the alphabet, '=' ends the data.
B64Value(c) == (CHOOSE i \in 1..64 : B64Alphabet[i] = c) - 1
RECURSIVE Atob(_)
Atob(s) ==
  IF Len(s) < 4 THEN <<>>
  ELSE LET v1 == B64Value(s[1])
           v2 == B64Value(s[2])
       IN IF s[3] = "=" THEN <<v1 * 4 + (v2 \div 16)>>
          ELSE IF s[4] = "="
            THEN <<v1 * 4 + (v2 \div 16), (v2 % 16) * 16 + (B64Value(s[3]) \div 4)>>
          ELSE <<v1 * 4 + (v2 \div 16), (v2 % 16) * 16 + (B64Value(s[3]) \div 4),
                 (B64Value(s[3]) % 4) * 64 + B64Value(s[4])>>
               \o Atob(SubSeq(s, 5, Len(s)))

\* buf2b64url(): btoa, then '+' to '-', '/' to '_', '=' removed.
Buf2b64url(buf) == ReplaceAll(ReplaceAll(ReplaceAll(Btoa(buf), "+", <<"-">>), "/", <<"_">>), "=", <<>>)

\* b64urlToBytes()
B64urlToBytes(b64url) ==
  LET b64 == PadEnd(ReplaceAll(ReplaceAll(b64url, "-", <<"+">>), "_", <<"/">>),
                    Len(b64url) + ((4 - (Len(b64url) % 4)) % 4), "=")
  IN Atob(b64)

\* Number.prototype.toString(16) of a byte: no leading zero.
ToString16(b) ==
  IF b < 16 THEN <<HexDigits[b + 1]>>
  ELSE <<HexDigits[(b \div 16) + 1], HexDigits[(b % 16) + 1]>>

\* buf2hex() without padStart
RECURSIVE Buf2hexUnpadded(_)
Buf2hexUnpadded(buf) ==
  IF buf = <<>> THEN <<>>
  ELSE ToString16(Head(buf)) \o Buf2hexUnpadded(Tail(buf))

\* buf2hex()
RECURSIVE Buf2hex(_)
Buf2hex(buf) ==
  IF buf = <<>> THEN <<>>
  ELSE PadStart(ToString16(Head(buf)), 2, "0") \o Buf2hex(Tail(buf))

\* The raw public key of the k-th key pair crypto.subtle.generateKey() makes;
\* key pair 0 was made by an earlier page.  Different pairs have different keys.
KeyBytes(k) == <<(251 + 37 * k) % 256, (255 + 101 * k) % 256>>

\* crypto.subtle.digest('SHA-256', bytes): some fixed function of the bytes.
Digest(bytes) == <<(7 * bytes[1] + bytes[2] + 5) % 256, (bytes[1] + 3 * bytes[2]) % 16>>

\* exportKey('jwk', publicKey).x: the raw key in base64url without padding.
JwkX(k) == Buf2b64url(KeyBytes(k))

\* A DeviceIdentity.  The two JWKs are named by the number of their key pair;
\* NoIdentity is a record whose every field is falsy.
NoIdentity == [id |-> <<>>, publicKeyRaw |-> <<>>, publicKeyJwk |-> -1, privateKeyJwk |-> -1]

\* generateKeypair(), given the key pair generateKey() made
GenerateKeypair(k) ==
  LET publicKeyRaw == JwkX(k)
      rawBytes == B64urlToBytes(publicKeyRaw)
      hashBuf == Digest(rawBytes)
  IN [id |-> Buf2hex(hashBuf), publicKeyRaw |-> publicKeyRaw,
      publicKeyJwk |-> k, privateKeyJwk |-> k]

\* What localStorage holds under STORAGE_KEY: nothing ("absent": getItem gives
\* null), the empty string, text that is not JSON ("garbage"), the text 'null',
\* or the JSON of a record ("json").
NoItem == [kind |-> "absent", value |-> NoIdentity]
Stringify(identity) == [kind |-> "json", value |-> identity]

\* parsed.id && parsed.publicKeyRaw && parsed.publicKeyJwk && parsed.privateKeyJwk
Complete(parsed) ==
  /\ parsed.id # <<>>
  /\ parsed.publicKeyRaw # <<>>
  /\ parsed.publicKeyJwk # -1
  /\ parsed.privateKeyJwk # -1

\* Lines 74-81 of getOrCreateDeviceIdentity(): TRUE when the stored text is
\* returned.  JSON.parse throws on "garbage", parsed.id throws on 'null'; both
\* are caught.
StoredIsUsable(item) ==
  /\ item.kind \notin {"absent", "empty"}
  /\ item.kind = "json"
  /\ Complete(item.value)

\* The records an earlier page can have left: everything above, a record that
\* lost its id, and the record generateKeypair() made for key pair 0.
StoredItems ==
  {NoItem, [kind |-> "empty", value |-> NoIdentity], [kind |-> "garbage", value |-> NoIdentity],
   [kind |-> "null", value |-> NoIdentity],
   Stringify([GenerateKeypair(0) EXCEPT !.id = <<>>]),
   Stringify(GenerateKeypair(0))}

\* A call of getOrCreateDeviceIdentity() that was not made yet.
NoCall == [stage |-> "none", result |-> NoIdentity, generated |-> FALSE]

IdleIdentity ==
  /\ keypairItem = NoItem
  /\ lsReadable = TRUE
  /\ idCalls = [c \in 1..MaxCalls |-> NoCall]
  /\ nkeys = 0
  /\ idWrites = 0

(***************************************************************************)
(* The widget server (the server code of tests/api.test.ts).  A text is    *)
(* what a file or an HTTP body holds; JSON text keeps the value it was     *)
(* written from and the indentation it was written with.                   *)
(***************************************************************************)
DefaultDoc == [version |-> 1, widgets |-> <<>>]
Docs == {DefaultDoc, [version |-> 1, widgets |-> <<"w2", "w1">>]}

\* JSON.stringify(value, null, indent); text that is not JSON; no text at all
JsonStringify(value, indent) == [kind |-> "json", value |-> value, indent |-> indent]
Garbage == [kind |-> "garbage", value |-> DefaultDoc, indent |-> 0]
NoText == [kind |-> "missing", value |-> DefaultDoc, indent |-> 0]

\* JSON.stringify({ ok: true }) and JSON.stringify({ error: e.message })
OkReply == [kind |-> "ok", value |-> DefaultDoc, indent |-> 0]
ErrorReply == [kind |-> "error", value |-> DefaultDoc, indent |-> 0]

\* JSON.parse(text) returns; JSON.parse(text)
JsonParses(text) == text.kind = "json"
JsonParse(text) == text.value

\* The bodies a client sends with PUT /api/widgets.
Bodies == {JsonStringify(d, 0) : d \in Docs} \cup {Garbage}

\* readWidgets() that gives the empty document whatever the file holds
ReadWidgetsEmpty(file) == DefaultDoc

\* readWidgets(): the parsed file, the empty document when that throws
ReadWidgets(file) == IF JsonParses(file) THEN JsonParse(file) ELSE DefaultDoc

\* A request that was not made, and a connection that was not opened.  "after"
\* is the number of PUTs answered 200 before the request was answered;
\* "since" the number answered 200 before the connection was added, "got" the
\* widgets-changed messages the connection's client received.
NoHttp == [method |-> "", body |-> NoText, stage |-> "none", status |-> 0,
           reply |-> NoText, after |-> 0]
NoSse == [conn |-> "none", got |-> 0, since |-> 0]

IdleWidgets ==
  /\ widgetsFile = JsonStringify(DefaultDoc, 2)
  /\ sseClients = {}
  /\ sse = [s \in 1..MaxSse |-> NoSse]
  /\ http = [r \in 1..MaxHttp |-> NoHttp]
  /\ nhttp = 0
  /\ lastPut = <<>>
  /\ watchPending = "idle"

InitPage ==
  /\ ws = 0
  /\ pendingRequests = {}
  /\ state = "disconnected"
  /\ challenge = 0
  /\ deviceToken = ""
  /\ connected = FALSE
  /\ reqSeq = 0
  /\ urlOk \in BOOLEAN
  /\ optToken = "cfg"
  /\ sockets = [t \in 1..MaxWs |-> NoSocket]
  /\ nws = 0
  /\ req = [i \in 1..MaxReq |-> NoReq]
  /\ hs = [h \in 1..MaxHs |-> NoHs]
  /\ nhs = 0
  /\ lsIdentity \in {0, 1}
  /\ lsToken = [i \in Idents |-> ""]
  /\ microtasks = <<>>
  /\ lastTask = Task("init", 0, 0, FALSE)
  /\ effects = <<>>
  /\ eventHandlers = [e \in AllEvents |-> <<>>]
  /\ unsubs = <<>>
  /\ activeSessionKey = "A"
  /\ sessionChats = [k \in SessionKeys |-> NoChat]
  /\ runText = [k \in SessionKeys |-> [r \in RunIds |-> ""]]
  /\ chatLog = [k \in SessionKeys |-> <<>>]
  /\ nchat = 0

Init == InitPage /\ IdleIdentity /\ IdleWidgets

\* connect()
Connect ==
  /\ microtasks = <<>>
  /\ urlOk => nws < MaxWs
  /\ LET old == IF ws # 0
                THEN [sockets EXCEPT ![ws].onclose = FALSE,
                                     ![ws].readyState = CloseCalled(@)]
                ELSE sockets
     IN IF urlOk
        THEN /\ sockets' = [old EXCEPT ![nws + 1] = NewSocket]
             /\ nws' = nws + 1
             /\ ws' = nws + 1
             /\ state' = "connecting"
             /\ effects' = <<Eff("onStateChange", "connecting", 0)>>
        ELSE /\ sockets' = old
             /\ nws' = nws
             /\ ws' = 0
             /\ state' = "error"
             /\ effects' = <<Eff("onStateChange", "connecting", 0),
                             Eff("onStateChange", "error", 0),
                             Eff("onDisconnect", CtorError, 0)>>
  /\ connected' = FALSE
  /\ lastTask' = Task("connect", ws, 0, ws # 0)
  /\ UNCHANGED <<pendingRequests, challenge, deviceToken, reqSeq, urlOk, optToken,
                 req, hs, nhs, lsIdentity, lsToken, microtasks>>
  /\ UNCHANGED <<handlerVars, storeVars, identityVars, widgetVars>>

\* disconnect()
Disconnect ==
  /\ microtasks = <<>>
  /\ sockets' = IF ws # 0
                THEN [sockets EXCEPT ![ws] = [readyState |-> CloseCalled(@.readyState),
                                              onmessage |-> FALSE, onerror |-> FALSE,
                                              onclose |-> FALSE]]
                ELSE sockets
  /\ ws' = 0
  /\ connected' = FALSE
  /\ state' = "disconnected"
  /\ effects' = <<Eff("onStateChange", "disconnected", 0)>>
  /\ lastTask' = Task("disconnect", ws, 0, ws # 0)
  /\ UNCHANGED <<pendingRequests, challenge, deviceToken, reqSeq, urlOk, optToken,
                 nws, req, hs, nhs, lsIdentity, lsToken, microtasks>>
  /\ UNCHANGED <<handlerVars, storeVars, identityVars, widgetVars>>

\* send(): the frame is written only when the current transport is OPEN.
SendWs == IF ws # 0 /\ sockets[ws].readyState = "open" THEN ws ELSE 0

\* request(): the entry stored in the correlation table and the promise returned.
NewReq(method, h) ==
  [method |-> method, ws |-> SendWs, hs |-> h, outcome |-> "pending", settles |-> 0]

\* request(): the table entry is set, then the frame is handed to send().
RequestEffects(method, id) ==
  <<Eff("request", method, id)>> \o
  (IF SendWs # 0 THEN <<Eff("send", method, id)>> ELSE <<>>)

\* The awaiting code that resumes when the promise of request id settles with
\* val: doHandshake for connect, loadSessions for sessions.list.  Other callers
\* are outside the client.
Continuation(id, val) ==
  IF req[id].method \in {"connect", "sessions.list"}
  THEN <<[k |-> "settled", n |-> id, val |-> val]>>
  ELSE <<>>

\* isConnected()
IsConnected == connected /\ state = "connected"

\* A caller of the public RPC surface: sendMessage(), loadHistory(), abortRun(), ...
CallRequest(m) ==
  /\ microtasks = <<>>
  /\ reqSeq < MaxReq
  /\ reqSeq' = reqSeq + 1
  /\ pendingRequests' = pendingRequests \cup {reqSeq + 1}
  /\ req' = [req EXCEPT ![reqSeq + 1] = NewReq(m, 0)]
  /\ effects' = RequestEffects(m, reqSeq + 1)
  /\ lastTask' = Task("request", SendWs, reqSeq + 1, SendWs # 0)
  /\ UNCHANGED <<ws, state, challenge, deviceToken, connected, urlOk, optToken,
                 sockets, nws, hs, nhs, lsIdentity, lsToken, microtasks>>
  /\ UNCHANGED <<handlerVars, storeVars, identityVars, widgetVars>>

\* The transport finishes its opening handshake.  The client sets no onopen handler.
TransportOpen(t) ==
  /\ microtasks = <<>>
  /\ sockets[t].readyState = "connecting"
  /\ sockets' = [sockets EXCEPT ![t].readyState = "open"]
  /\ lastTask' = Task("open", t, 0, FALSE)
  /\ effects' = <<>>
  /\ UNCHANGED <<clientVars, urlOk, optToken, nws, req, hs, nhs, lsIdentity, lsToken,
                 microtasks>>
  /\ UNCHANGED <<handlerVars, storeVars, identityVars, widgetVars>>

\* ws.onerror: the state it sets and the table it leaves.
OnErrorState == "error"
OnErrorTable(P) == P

\* The transport fails and fires its error event; its close event follows later.
TransportError(t) ==
  /\ microtasks = <<>>
  /\ Unclosed(t)
  /\ sockets' = [sockets EXCEPT ![t].readyState = CloseCalled(@)]
  /\ IF sockets[t].onerror
     THEN /\ state' = OnErrorState
          /\ pendingRequests' = OnErrorTable(pendingRequests)
          /\ effects' = <<Eff("onStateChange", OnErrorState, 0)>>
     ELSE /\ effects' = <<>>
          /\ UNCHANGED <<state, pendingRequests>>
  /\ lastTask' = Task("error", t, 0, sockets[t].onerror)
  /\ UNCHANGED <<ws, challenge, deviceToken, connected, reqSeq, urlOk, optToken, nws,
                 req, hs, nhs, lsIdentity, lsToken, microtasks>>
  /\ UNCHANGED <<handlerVars, storeVars, identityVars, widgetVars>>

\* ws.onclose: the state it sets and the table it leaves.
OnCloseState == "disconnected"
OnCloseTable(P) == {}

\* ws.onclose: reject(new Error('disconnected')) for one entry of the table.
RejectDisconnected(r) == [r EXCEPT !.outcome = "disconnected", !.settles = @ + 1]

RECURSIVE RejectEffects(_)
RejectEffects(ids) ==
  IF ids = <<>> THEN <<>>
  ELSE <<Eff("reject", "disconnected", Head(ids))>> \o RejectEffects(Tail(ids))

RECURSIVE Continuations(_)
Continuations(ids) ==
  IF ids = <<>> THEN <<>>
  ELSE Continuation(Head(ids), "disconnected") \o Continuations(Tail(ids))

\* The transport fires its close event, the last event it delivers.
TransportClose(t) ==
  /\ microtasks = <<>>
  /\ Unclosed(t)
  /\ sockets' = [sockets EXCEPT ![t] = [NoSocket EXCEPT !.readyState = "closed"]]
  /\ IF sockets[t].onclose
     THEN /\ connected' = FALSE
          /\ state' = OnCloseState
          /\ req' = [i \in 1..MaxReq |->
                       IF i \in pendingRequests THEN RejectDisconnected(req[i]) ELSE req[i]]
          /\ pendingRequests' = OnCloseTable(pendingRequests)
          /\ effects' = <<Eff("onStateChange", OnCloseState, 0),
                          Eff("onDisconnect", CloseReason, 0)>>
                        \o RejectEffects(InOrder(pendingRequests))
          /\ microtasks' = Continuations(InOrder(pendingRequests))
     ELSE /\ effects' = <<>>
          /\ UNCHANGED <<connected, state, req, pendingRequests, microtasks>>
  /\ lastTask' = Task("close", t, 0, sockets[t].onclose)
  /\ UNCHANGED <<ws, challenge, deviceToken, reqSeq, urlOk, optToken, nws, hs, nhs,
                 lsIdentity, lsToken>>
  /\ UNCHANGED <<handlerVars, storeVars, identityVars, widgetVars>>

\* A message event on a transport whose onmessage was set to null.
MessageDropped(t) ==
  /\ microtasks = <<>>
  /\ Delivering(t)
  /\ ~sockets[t].onmessage
  /\ lastTask' = Task("message", t, 0, FALSE)
  /\ effects' = <<>>
  /\ UNCHANGED <<clientVars, envVars, microtasks>>
  /\ UNCHANGED <<handlerVars, storeVars, identityVars, widgetVars>>

\* Frames the client does not understand: text JSON.parse throws on, the JSON
\* value null (reading frame.type throws), and JSON without a known type.
MalformedKinds == {"unparseable", "null", "untyped"}

\* A handler that gives up the connection on a frame it cannot read.
AfterMalformedGivesUp(kind, st) == IF kind = "unparseable" THEN "error" ELSE st

\* ws.onmessage with such a frame: the catch logs it, or handleFrame matches no
\* branch.  What the client is left with.
AfterMalformed(kind, st) == st

MalformedFrame(t, kind) ==
  /\ microtasks = <<>>
  /\ Delivering(t)
  /\ sockets[t].onmessage
  /\ state' = AfterMalformed(kind, state)
  /\ lastTask' = Task("malformed", t, 0, TRUE)
  /\ effects' = IF state' # state THEN <<Eff("onStateChange", state', 0)>> ELSE <<>>
  /\ UNCHANGED <<ws, pendingRequests, challenge, deviceToken, connected, reqSeq, envVars,
                 microtasks>>
  /\ UNCHANGED <<handlerVars, storeVars, identityVars, widgetVars>>

\* A lookup that finds every id ever allocated, as if entries were never deleted.
HasEntryIssued(P, id) == id # 0

\* handleFrame, type 'res': if (pending)
HasEntry(P, id) == id \in P

\* A handler that forgets to delete the entry it settles.
DeleteEntryKept(P, id) == P

\* handleFrame, type 'res': pendingRequests.delete(id)
DeleteEntry(P, id) == P \ {id}

\* A handler that resolves whatever frame.ok says.
SettleOutcomeResolves(ok) == "resolved"

\* handleFrame, type 'res': resolve on ok, reject otherwise.
SettleOutcome(ok) == IF ok THEN "resolved" ELSE "rejected"

\* What a response carries: payload.auth?.deviceToken, or error.message.
ResVals(ok) == IF ok THEN OkPayloads ELSE ErrTexts

\* handleFrame, type 'res'.  A frame for id 0 stands for an id never allocated;
\* any other id answers a request that was written to this transport.  Only the
\* handshake reads the payload, so other requests get one payload each.
HandleRes(t, id, ok, val) ==
  /\ microtasks = <<>>
  /\ Delivering(t)
  /\ sockets[t].onmessage
  /\ id # 0 => req[id].ws = t
  /\ val \in ResVals(ok)
  /\ (id = 0 \/ req[id].method # "connect" \/ id \notin pendingRequests)
       => val \in {"", "unauthorized"}
  /\ (id \in pendingRequests /\ req[id].method = "connect" /\ ok) => reqSeq < MaxReq
  /\ IF HasEntry(pendingRequests, id)
     THEN /\ pendingRequests' = DeleteEntry(pendingRequests, id)
          /\ req' = [req EXCEPT ![id].outcome = SettleOutcome(ok), ![id].settles = @ + 1]
          /\ effects' = <<Eff(IF SettleOutcome(ok) = "resolved" THEN "resolve" ELSE "reject",
                              val, id)>>
          /\ microtasks' = Continuation(id, val)
     ELSE /\ effects' = <<>>
          /\ UNCHANGED <<pendingRequests, req, microtasks>>
  /\ lastTask' = Task("res", t, id, id \in pendingRequests)
  /\ UNCHANGED <<ws, state, challenge, deviceToken, connected, reqSeq, urlOk, optToken,
                 sockets, nws, hs, nhs, lsIdentity, lsToken>>
  /\ UNCHANGED <<handlerVars, storeVars, identityVars, widgetVars>>

\* handleEvent, event 'connect.challenge', and doHandshake up to its first
\* suspension.  The server never repeats a nonce: challenge k carries nonce k.
\* getOrCreateDeviceIdentity() returns the stored identity at once (the await
\* resumes in a microtask) or waits for generateKeypair().
HandleChallenge(t) ==
  /\ microtasks = <<>>
  /\ Delivering(t)
  /\ sockets[t].onmessage
  /\ nhs < Len(hs)
  /\ challenge' = nhs + 1
  /\ state' = "authenticating"
  /\ effects' = <<Eff("onStateChange", "authenticating", 0)>>
  /\ nhs' = nhs + 1
  /\ IF lsIdentity # 0
     THEN /\ hs' = [hs EXCEPT ![nhs + 1] =
                      [NoHs EXCEPT !.stage = "identity", !.ws = t, !.ident = lsIdentity]]
          /\ microtasks' = <<[k |-> "identity", n |-> nhs + 1, val |-> ""]>>
     ELSE /\ hs' = [hs EXCEPT ![nhs + 1] = [NoHs EXCEPT !.stage = "keygen", !.ws = t]]
          /\ microtasks' = <<>>
  /\ lastTask' = Task("challenge", t, nhs + 1, TRUE)
  /\ UNCHANGED <<ws, pendingRequests, deviceToken, connected, reqSeq, urlOk, optToken,
                 sockets, nws, req, lsIdentity, lsToken>>
  /\ UNCHANGED <<handlerVars, storeVars, identityVars, widgetVars>>

\* handleEvent, event 'connect.challenge' without a payload: this.challenge is
\* undefined and doHandshake returns at once.
HandleChallengeNoPayload(t) ==
  /\ microtasks = <<>>
  /\ Delivering(t)
  /\ sockets[t].onmessage
  /\ challenge' = -1
  /\ state' = "authenticating"
  /\ effects' = <<Eff("onStateChange", "authenticating", 0)>>
  /\ lastTask' = Task("challenge", t, 0, FALSE)
  /\ UNCHANGED <<ws, pendingRequests, deviceToken, connected, reqSeq, envVars, microtasks>>
  /\ UNCHANGED <<handlerVars, storeVars, identityVars, widgetVars>>

\* Event names: the built-in 'chat' and one that is not built in.
EventNames == {"chat", "tick"}

\* A dispatch that waits for the handshake: nothing is delivered while a
\* doHandshake() is suspended.
DispatchAfterHandshake(ev, hl) ==
  IF \E h \in 1..Len(hs) : hs[h].stage \in {"keygen", "sign", "request"}
  THEN <<>>
  ELSE [k \in 1..Len(hl) |-> Eff("handler", ev, hl[k])]

\* handleEvent: for (const h of handlers) h(payload), in the Set's insertion order.
RECURSIVE Dispatch(_, _)
Dispatch(ev, hl) ==
  IF hl = <<>> THEN <<>>
  ELSE <<Eff("handler", ev, Head(hl))>> \o Dispatch(ev, Tail(hl))

\* handleEvent for any other event: onChat for 'chat', then the registered handlers.
HandleEvent(t, ev) ==
  /\ microtasks = <<>>
  /\ Delivering(t)
  /\ sockets[t].onmessage
  /\ effects' = (IF ev = "chat" THEN <<Eff("onChat", ev, 0)>> ELSE <<>>)
                 \o Dispatch(ev, eventHandlers[ev])
  /\ lastTask' = Task("event", t, 0, ev = "chat")
  /\ UNCHANGED <<clientVars, envVars, microtasks>>
  /\ UNCHANGED <<handlerVars, storeVars, identityVars, widgetVars>>

\* generateKeypair() completes: getOrCreateDeviceIdentity stores the new identity
\* and returns it, and doHandshake resumes in a microtask.
KeygenDone(h) ==
  /\ microtasks = <<>>
  /\ hs[h].stage = "keygen"
  /\ challenge = -1 => reqSeq < MaxReq
  /\ lsIdentity' = h + 1
  /\ hs' = [hs EXCEPT ![h].stage = "identity", ![h].ident = h + 1]
  /\ microtasks' = <<[k |-> "identity", n |-> h, val |-> ""]>>
  /\ effects' = <<Eff("setItem", "identity", h + 1)>>
  /\ lastTask' = Task("keygen", 0, h, TRUE)
  /\ UNCHANGED <<clientVars, urlOk, optToken, sockets, nws, req, nhs, lsToken>>
  /\ UNCHANGED <<handlerVars, storeVars, identityVars, widgetVars>>

\* generateKeypair() rejects: the rejection leaves doHandshake and handleEvent,
\* whose promise nobody awaits.
KeygenFail(h) ==
  /\ microtasks = <<>>
  /\ hs[h].stage = "keygen"
  /\ hs' = [hs EXCEPT ![h] = [NoHs EXCEPT !.stage = "threw"]]
  /\ effects' = <<>>
  /\ lastTask' = Task("keygen", 0, h, FALSE)
  /\ UNCHANGED <<clientVars, urlOk, optToken, sockets, nws, req, nhs, lsIdentity,
                 lsToken, microtasks>>
  /\ UNCHANGED <<handlerVars, storeVars, identityVars, widgetVars>>

\* A handshake that prefers the caller's token to the stored one.
AuthTokenCallerFirst(ident) == IF optToken # "" THEN optToken ELSE lsToken[ident]

\* doHandshake: storedToken || this.options.token || undefined
AuthToken(ident) == IF lsToken[ident] # "" THEN lsToken[ident] ELSE optToken

\* doHandshake resumed with the identity: it reads the token and calls
\* buildDeviceAuth with the nonce of this.challenge as it is now.  Reading the
\* nonce of an undefined challenge throws inside the try block, and the connect
\* request goes out at once without a device block.
RunIdentity ==
  /\ microtasks # <<>>
  /\ Head(microtasks).k = "identity"
  /\ LET h == Head(microtasks).n
         token == AuthToken(hs[h].ident)
     IN IF challenge = -1
        THEN /\ reqSeq < MaxReq
             /\ reqSeq' = reqSeq + 1
             /\ pendingRequests' = pendingRequests \cup {reqSeq + 1}
             /\ req' = [req EXCEPT ![reqSeq + 1] = NewReq("connect", h)]
             /\ hs' = [hs EXCEPT ![h].stage = "request", ![h].token = token,
                                 ![h].req = reqSeq + 1]
             /\ effects' = effects \o RequestEffects("connect", reqSeq + 1)
        ELSE /\ hs' = [hs EXCEPT ![h].stage = "sign", ![h].nonce = challenge,
                                 ![h].token = token]
             /\ UNCHANGED <<reqSeq, pendingRequests, req, effects>>
  /\ microtasks' = Tail(microtasks)
  /\ UNCHANGED <<ws, state, challenge, deviceToken, connected, urlOk, optToken, sockets,
                 nws, nhs, lsIdentity, lsToken, lastTask>>
  /\ UNCHANGED <<handlerVars, storeVars, identityVars, widgetVars>>

\* A handshake that sends a device block whether or not signing succeeded.
DevicePayloadAlways(ok) == TRUE

\* doHandshake: devicePayload is set only when buildDeviceAuth() returned, and
\* connectParams.device only when devicePayload is set.
DevicePayload(ok) == ok

\* doHandshake: connectParams.auth = { token: authToken || '' }, set always.
\* The block is a tuple: empty when omitted, else holding the token.
AuthBlock(token) == <<token>>

\* The params of the connect request of handshake h, once it has been made.
ConnectParams(h) == [device |-> hs[h].device, auth |-> AuthBlock(hs[h].token)]

\* buildDeviceAuth() completes (ok) or throws (signing failed): either way
\* doHandshake sends the connect request.
SignDone(h, ok) ==
  /\ microtasks = <<>>
  /\ hs[h].stage = "sign"
  /\ reqSeq < MaxReq
  /\ reqSeq' = reqSeq + 1
  /\ pendingRequests' = pendingRequests \cup {reqSeq + 1}
  /\ req' = [req EXCEPT ![reqSeq + 1] = NewReq("connect", h)]
  /\ hs' = [hs EXCEPT ![h].stage = "request", ![h].device = DevicePayload(ok),
                      ![h].req = reqSeq + 1]
  /\ effects' = RequestEffects("connect", reqSeq + 1)
  /\ lastTask' = Task("sign", 0, h, ok)
  /\ UNCHANGED <<ws, state, challenge, deviceToken, connected, urlOk, optToken, sockets,
                 nws, nhs, lsIdentity, lsToken, microtasks>>
  /\ UNCHANGED <<handlerVars, storeVars, identityVars, widgetVars>>

\* A handshake that reports connected before it stores the token.
HandshakeOkEffectsLate(tok, ident, id) ==
  <<Eff("onStateChange", "connected", 0)>>
  \o (IF tok # "" THEN <<Eff("setItem", tok, ident)>> ELSE <<>>)
  \o RequestEffects("sessions.list", id)

\* doHandshake after the connect RPC resolved: what it does, in order.
HandshakeOkEffects(tok, ident, id) ==
  (IF tok # "" THEN <<Eff("setItem", tok, ident)>> ELSE <<>>)
  \o <<Eff("onStateChange", "connected", 0)>>
  \o RequestEffects("sessions.list", id)

\* doHandshake after the connect RPC resolved: the token it stores for the identity.
PersistToken(tok, old) == IF tok # "" THEN tok ELSE old

\* doHandshake after the connect RPC resolved: the state it sets.
HandshakeOkState(tok) == "connected"

\* doHandshake resumed with the result of the connect RPC.
RunConnectOk ==
  /\ microtasks # <<>>
  /\ Head(microtasks).k = "settled"
  /\ LET id == Head(microtasks).n
         h == req[id].hs
         tok == Head(microtasks).val
     IN /\ req[id].method = "connect"
        /\ req[id].outcome = "resolved"
        /\ reqSeq < MaxReq
        /\ deviceToken' = PersistToken(tok, deviceToken)
        /\ lsToken' = [lsToken EXCEPT ![hs[h].ident] = PersistToken(tok, @)]
        /\ connected' = TRUE
        /\ state' = HandshakeOkState(tok)
        /\ reqSeq' = reqSeq + 1
        /\ pendingRequests' = pendingRequests \cup {reqSeq + 1}
        /\ req' = [req EXCEPT ![reqSeq + 1] = NewReq("sessions.list", 0)]
        /\ hs' = [hs EXCEPT ![h] = [NoHs EXCEPT !.stage = "done", !.ident = hs[h].ident]]
        /\ effects' = effects \o HandshakeOkEffects(tok, hs[h].ident, reqSeq + 1)
  /\ microtasks' = Tail(microtasks)
  /\ UNCHANGED <<ws, challenge, urlOk, optToken, sockets, nws, nhs, lsIdentity, lastTask>>
  /\ UNCHANGED <<handlerVars, storeVars, identityVars, widgetVars>>

\* A handshake that sends its connect request again when it was rejected.
HandshakeFailEffectsRetry(msg) ==
  (IF IsPairingText(msg) THEN <<Eff("onDevicePairingRequired", "", 0)>> ELSE <<>>)
  \o <<Eff("onStateChange", "error", 0), Eff("onDisconnect", msg, 0),
       Eff("send", "connect", 0)>>

\* A handshake that signals pairing after the error transition.
HandshakeFailEffectsLate(msg) ==
  <<Eff("onStateChange", "error", 0), Eff("onDisconnect", msg, 0)>>
  \o (IF IsPairingText(msg) THEN <<Eff("onDevicePairingRequired", "", 0)>> ELSE <<>>)

\* doHandshake after the connect RPC was rejected: what it does, in order.
HandshakeFailEffects(msg) ==
  (IF IsPairingText(msg) THEN <<Eff("onDevicePairingRequired", "", 0)>> ELSE <<>>)
  \o <<Eff("onStateChange", "error", 0), Eff("onDisconnect", msg, 0)>>

\* doHandshake resumed with the rejection of the connect RPC.
RunConnectFail ==
  /\ microtasks # <<>>
  /\ Head(microtasks).k = "settled"
  /\ LET id == Head(microtasks).n
         h == req[id].hs
     IN /\ req[id].method = "connect"
        /\ req[id].outcome \in {"rejected", "disconnected"}
        /\ state' = "error"
        /\ hs' = [hs EXCEPT ![h] = [NoHs EXCEPT !.stage = "failed"]]
        /\ effects' = effects \o HandshakeFailEffects(Head(microtasks).val)
  /\ microtasks' = Tail(microtasks)
  /\ UNCHANGED <<ws, pendingRequests, challenge, deviceToken, connected, reqSeq, urlOk,
                 optToken, sockets, nws, req, nhs, lsIdentity, lsToken, lastTask>>
  /\ UNCHANGED <<handlerVars, storeVars, identityVars, widgetVars>>

\* loadSessions resumed: onSessions with the result, or the rejection is logged.
RunSessionsSettled ==
  /\ microtasks # <<>>
  /\ Head(microtasks).k = "settled"
  /\ LET id == Head(microtasks).n
     IN /\ req[id].method = "sessions.list"
        /\ effects' = IF req[id].outcome = "resolved"
                      THEN effects \o <<Eff("onSessions", "", id)>>
                      ELSE effects
  /\ microtasks' = Tail(microtasks)
  /\ UNCHANGED <<clientVars, envVars, lastTask>>
  /\ UNCHANGED <<handlerVars, storeVars, identityVars, widgetVars>>

\* Set.add(handler): a handler already in the set keeps its place.
AddHandler(hl, h) == IF \E k \in 1..Len(hl) : hl[k] = h THEN hl ELSE Append(hl, h)

\* A delete that empties the whole set of the event name.
DeleteHandlerAll(hl, h) == <<>>

\* Set.delete(handler)
DeleteHandler(hl, h) == SelectSeq(hl, LAMBDA x : x # h)

\* Whether handler h is in the set of event name ev.
Registered(ev, h) == \E k \in 1..Len(eventHandlers[ev]) : eventHandlers[ev][k] = h

\* on(event, handler): registers the handler and returns the unsubscribe
\* closure, which captures the event name and the handler.
On(ev, h) ==
  /\ microtasks = <<>>
  /\ Len(unsubs) < MaxOn
  /\ eventHandlers' = [eventHandlers EXCEPT ![ev] = AddHandler(@, h)]
  /\ unsubs' = Append(unsubs, [ev |-> ev, h |-> h, called |-> FALSE])
  /\ lastTask' = Task("on", 0, h, Registered(ev, h))
  /\ effects' = <<>>
  /\ UNCHANGED <<clientVars, envVars, microtasks, storeVars, identityVars, widgetVars>>

\* The closure the c-th call of on() returned, called by whoever holds it:
\* this.eventHandlers.get(event)?.delete(handler)
Unsubscribe(c) ==
  /\ microtasks = <<>>
  /\ c \in 1..Len(unsubs)
  /\ eventHandlers' = [eventHandlers EXCEPT ![unsubs[c].ev] = DeleteHandler(@, unsubs[c].h)]
  /\ unsubs' = [unsubs EXCEPT ![c].called = TRUE]
  /\ lastTask' = Task("unsubscribe", 0, c, Registered(unsubs[c].ev, unsubs[c].h))
  /\ effects' = <<>>
  /\ UNCHANGED <<clientVars, envVars, microtasks, storeVars, identityVars, widgetVars>>

RunMicrotask == RunIdentity \/ RunConnectOk \/ RunConnectFail \/ RunSessionsSettled

Next ==
  \/ Connect
  \/ Disconnect
  \/ \E m \in CallerMethods : CallRequest(m)
  \/ \E t \in 1..MaxWs : TransportOpen(t)
  \/ \E t \in 1..MaxWs : TransportError(t)
  \/ \E t \in 1..MaxWs : TransportClose(t)
  \/ \E t \in 1..MaxWs : MessageDropped(t)
  \/ \E t \in 1..MaxWs, kind \in MalformedKinds : MalformedFrame(t, kind)
  \/ \E t \in 1..MaxWs, id \in 0..MaxReq, ok \in BOOLEAN, val \in OkPayloads \cup ErrTexts :
       HandleRes(t, id, ok, val)
  \/ \E t \in 1..MaxWs : HandleChallenge(t)
  \/ \E t \in 1..MaxWs : HandleChallengeNoPayload(t)
  \/ \E t \in 1..MaxWs, ev \in EventNames : HandleEvent(t, ev)
  \/ \E h \in 1..MaxHs : KeygenDone(h)
  \/ \E h \in 1..MaxHs : KeygenFail(h)
  \/ \E h \in 1..MaxHs, ok \in BOOLEAN : SignDone(h, ok)
  \/ RunMicrotask

Spec == Init /\ [][Next]_vars

(***************************************************************************)
(* The handshake across page loads.  A reload discards every object of the *)
(* page, the client with its transports, promises and suspended            *)
(* handshakes, and keeps localStorage; the next page constructs a new      *)
(* client.  The caller's token is an input.                                *)
(***************************************************************************)
InitAuth ==
  /\ ws = 0
  /\ pendingRequests = {}
  /\ state = "disconnected"
  /\ challenge = 0
  /\ deviceToken = ""
  /\ connected = FALSE
  /\ reqSeq = 0
  /\ urlOk = TRUE
  /\ optToken \in {"", "cfg"}
  /\ sockets = [t \in 1..MaxWs |-> NoSocket]
  /\ nws = 0
  /\ req = [i \in 1..MaxReq |-> NoReq]
  /\ hs = [h \in 1..MaxHs |-> NoHs]
  /\ nhs = 0
  /\ lsIdentity \in {0, 1}
  /\ lsToken = [i \in Idents |-> ""]
  /\ microtasks = <<>>
  /\ lastTask = Task("init", 0, 0, FALSE)
  /\ effects = <<>>
  /\ eventHandlers = [e \in AllEvents |-> <<>>]
  /\ unsubs = <<>>
  /\ activeSessionKey = "A"
  /\ sessionChats = [k \in SessionKeys |-> NoChat]
  /\ runText = [k \in SessionKeys |-> [r \in RunIds |-> ""]]
  /\ chatLog = [k \in SessionKeys |-> <<>>]
  /\ nchat = 0
  /\ IdleIdentity
  /\ IdleWidgets

\* The page is reloaded and a new GatewayClient is constructed: its fields have
\* their initial values, the storage is what the last page left.
Reload ==
  /\ microtasks = <<>>
  /\ nws > 0
  /\ ws' = 0
  /\ pendingRequests' = {}
  /\ state' = "disconnected"
  /\ challenge' = 0
  /\ deviceToken' = ""
  /\ connected' = FALSE
  /\ reqSeq' = 0
  /\ sockets' = [t \in 1..MaxWs |-> NoSocket]
  /\ nws' = 0
  /\ req' = [i \in 1..MaxReq |-> NoReq]
  /\ hs' = [h \in 1..MaxHs |-> NoHs]
  /\ nhs' = 0
  /\ lastTask' = Task("reload", 0, 0, FALSE)
  /\ effects' = <<>>
  /\ UNCHANGED <<urlOk, optToken, lsIdentity, lsToken, microtasks, handlerVars, storeVars,
                 identityVars, widgetVars>>

NextAuth ==
  \/ Reload
  \/ Connect
  \/ Disconnect
  \/ \E t \in 1..MaxWs : TransportOpen(t)
  \/ \E t \in 1..MaxWs : TransportError(t)
  \/ \E t \in 1..MaxWs : TransportClose(t)
  \/ \E t \in 1..MaxWs : HandleChallenge(t)
  \/ \E t \in 1..MaxWs : HandleChallengeNoPayload(t)
  \/ \E h \in 1..MaxHs : KeygenDone(h)
  \/ \E h \in 1..MaxHs : KeygenFail(h)
  \/ \E h \in 1..MaxHs, ok \in BOOLEAN : SignDone(h, ok)
  \/ \E t \in 1..MaxWs, id \in 1..MaxReq, ok \in BOOLEAN, val \in OkPayloads \cup ErrTexts :
       HandleRes(t, id, ok, val)
  \/ RunMicrotask

SpecAuth == InitAuth /\ [][NextAuth]_vars

(***************************************************************************)
(* The handshake when the server sends more than one challenge: on one     *)
(* transport, or on the transport of a reconnect while the handshake of    *)
(* the earlier challenge is still suspended.                               *)
(***************************************************************************)
InitChallenges ==
  /\ ws = 0
  /\ pendingRequests = {}
  /\ state = "disconnected"
  /\ challenge = 0
  /\ deviceToken = ""
  /\ connected = FALSE
  /\ reqSeq = 0
  /\ urlOk = TRUE
  /\ optToken = "cfg"
  /\ sockets = [t \in 1..MaxWs |-> NoSocket]
  /\ nws = 0
  /\ req = [i \in 1..MaxReq |-> NoReq]
  /\ hs = [h \in 1..MaxChallenges |-> NoHs]
  /\ nhs = 0
  /\ lsIdentity \in {0, 1}
  /\ lsToken = [i \in Idents |-> ""]
  /\ microtasks = <<>>
  /\ lastTask = Task("init", 0, 0, FALSE)
  /\ effects = <<>>
  /\ eventHandlers = [e \in AllEvents |-> <<>>]
  /\ unsubs = <<>>
  /\ activeSessionKey = "A"
  /\ sessionChats = [k \in SessionKeys |-> NoChat]
  /\ runText = [k \in SessionKeys |-> [r \in RunIds |-> ""]]
  /\ chatLog = [k \in SessionKeys |-> <<>>]
  /\ nchat = 0
  /\ IdleIdentity
  /\ IdleWidgets

NextChallenges ==
  \/ Connect
  \/ \E t \in 1..MaxWs : TransportOpen(t)
  \/ \E t \in 1..MaxWs : TransportClose(t)
  \/ \E t \in 1..MaxWs : HandleChallenge(t)
  \/ \E h \in 1..MaxChallenges : KeygenDone(h)
  \/ \E h \in 1..MaxChallenges, ok \in BOOLEAN : SignDone(h, ok)
  \/ \E t \in 1..MaxWs, id \in 1..MaxReq, ok \in BOOLEAN, val \in OkPayloads \cup ErrTexts :
       HandleRes(t, id, ok, val)
  \/ RunMicrotask

SpecChallenges == InitChallenges /\ [][NextChallenges]_vars

(***************************************************************************)
(* The client with callers that subscribe to events.  The environment is   *)
(* one that opens transports and delivers events and challenges; requests  *)
(* are made by the handshake only and stay unanswered.                     *)
(***************************************************************************)
NextEvents ==
  \/ \E ev \in AllEvents, h \in Handlers : On(ev, h)
  \/ \E c \in 1..MaxOn : Unsubscribe(c)
  \/ Connect
  \/ \E t \in 1..MaxWs : TransportOpen(t)
  \/ \E t \in 1..MaxWs : HandleChallenge(t)
  \/ \E t \in 1..MaxWs, ev \in EventNames : HandleEvent(t, ev)
  \/ \E h \in 1..MaxHs : KeygenDone(h)
  \/ \E h \in 1..MaxHs, ok \in BOOLEAN : SignDone(h, ok)
  \/ \E t \in 1..MaxWs, id \in 1..MaxReq, ok \in BOOLEAN, val \in OkPayloads \cup ErrTexts :
       HandleRes(t, id, ok, val)
  \/ RunMicrotask

SpecEvents == Init /\ [][NextEvents]_vars

(***************************************************************************)
(* The chat store (src/src/store/gateway.ts): the onChat reducer that      *)
(* folds chat events into the message log of each session, and the write   *)
(* loadHistory makes when its chat.history request has resolved.  The      *)
(* client that delivers the events is the one modelled above; here the     *)
(* events and history results are inputs.                                  *)
(***************************************************************************)

\* payload.message as the server may send it: absent, content a string,
\* content a list of typed parts.
NoMessage == [kind |-> "none", content |-> "", parts |-> <<>>]
StringMessage(str) == [kind |-> "string", content |-> str, parts |-> <<>>]
PartsMessage(ps) == [kind |-> "parts", content |-> "", parts |-> ps]
TextPart(str) == [type |-> "text", text |-> str]
ImagePart == [type |-> "image", text |-> "png"]

\* The messages of delta events: no text, 'Hel' as a string, 'lo' in two text
\* parts around an image part.
DeltaMessages ==
  {NoMessage, StringMessage("Hel"), PartsMessage(<<TextPart("l"), ImagePart, TextPart("o")>>)}
ErrorMessages == {"", "boom"}

\* filter((c) => c.type === 'text').map((c) => c.text || '').join('')
RECURSIVE JoinText(_)
JoinText(ps) ==
  IF ps = <<>> THEN ""
  ELSE (IF Head(ps).type = "text" THEN Head(ps).text ELSE "") \o JoinText(Tail(ps))

\* extractContent(message)
extractContent(m) ==
  IF m.kind = "none" THEN ""
  ELSE IF m.kind = "string" THEN m.content
  ELSE IF m.kind = "parts" THEN JoinText(m.parts)
  ELSE ""

\* A chat event payload.  A sessionKey of "" is absent.
Payload(key, st, run, m, err) ==
  [sessionKey |-> key, state |-> st, runId |-> run, message |-> m, errorMessage |-> err]

ChatPayloads ==
  {Payload(k, "delta", r, m, "") : k \in SessionKeys \cup {""}, r \in RunIds, m \in DeltaMessages}
  \cup {Payload(k, st, r, NoMessage, "") :
          k \in SessionKeys \cup {""}, st \in {"final", "aborted", "started"}, r \in RunIds}
  \cup {Payload(k, "error", r, NoMessage, e) :
          k \in SessionKeys \cup {""}, r \in RunIds, e \in ErrorMessages}

\* A message of the log.  A runId of "" is absent; an absent partial or
\* aborted reads as false.
ChatMessage(role, content, run, partial) ==
  [role |-> role, content |-> content, runId |-> run, partial |-> partial, aborted |-> FALSE]

\* msgs.findLastIndex((m) => m.runId === payload.runId), 0 when there is none.
FindLastIndex(msgs, run) ==
  LET S == {i \in 1..Len(msgs) : msgs[i].runId = run}
  IN IF S = {} THEN 0 ELSE CHOOSE i \in S : \A j \in S : j <= i

\* A delta that appends its text to the last partial assistant message,
\* whatever run that message belongs to.
DeltaLogAnyRun(msgs, p) ==
  LET content == extractContent(p.message)
      n == Len(msgs)
  IN IF n > 0 /\ msgs[n].role = "assistant" /\ msgs[n].partial
     THEN [msgs EXCEPT ![n].content = @ \o content]
     ELSE IF content # ""
          THEN Append(msgs, ChatMessage("assistant", content, p.runId, TRUE))
          ELSE msgs

\* onChat, state 'delta': the message list it returns.
DeltaLog(msgs, p) ==
  LET content == extractContent(p.message)
      n == Len(msgs)
  IN IF n > 0 /\ msgs[n].role = "assistant" /\ msgs[n].runId = p.runId /\ msgs[n].partial
     THEN [msgs EXCEPT ![n].content = @ \o content]
     ELSE IF content # ""
          THEN Append(msgs, ChatMessage("assistant", content, p.runId, TRUE))
          ELSE msgs

\* A final that freezes the first message of the run instead of the last.
FinalLogFirst(msgs, p) ==
  LET S == {i \in 1..Len(msgs) : msgs[i].runId = p.runId}
  IN IF S = {} THEN msgs
     ELSE [msgs EXCEPT ![CHOOSE i \in S : \A j \in S : i <= j].partial = FALSE]

\* onChat, state 'final': the message list it returns.
FinalLog(msgs, p) ==
  LET i == FindLastIndex(msgs, p.runId)
  IN IF i > 0 THEN [msgs EXCEPT ![i].partial = FALSE] ELSE msgs

\* `\n\n*[Error: ${payload.errorMessage || 'unknown'}]*`
ErrorAnnotation(err) == "\n\n*[Error: " \o (IF err = "" THEN "unknown" ELSE err) \o "]*"

\* onChat, state 'aborted' or 'error': the message list it returns.
EndedLog(msgs, p) ==
  LET i == FindLastIndex(msgs, p.runId)
  IN IF i > 0
     THEN [msgs EXCEPT ![i].partial = FALSE,
                       ![i].aborted = (p.state = "aborted"),
                       ![i].content = IF p.state = "error"
                                      THEN @ \o ErrorAnnotation(p.errorMessage)
                                      ELSE @]
     ELSE msgs

\* onChat: the chat of the session after the event.
ChatAfter(chat, p) ==
  IF p.state = "delta"
  THEN [messages |-> DeltaLog(chat.messages, p), streaming |-> TRUE,
        streamingRunId |-> p.runId]
  ELSE IF p.state = "final"
  THEN [messages |-> FinalLog(chat.messages, p), streaming |-> FALSE, streamingRunId |-> ""]
  ELSE IF p.state \in {"aborted", "error"}
  THEN [messages |-> EndedLog(chat.messages, p), streaming |-> FALSE, streamingRunId |-> ""]
  ELSE chat

\* An onChat that files every event under the active session.
ChatKeyActive(p) == activeSessionKey

\* onChat: payload.sessionKey || activeSessionKey
ChatKey(p) == IF p.sessionKey # "" THEN p.sessionKey ELSE activeSessionKey

\* The text of the deltas of a run since the run last ended.
TextAfter(text, p) ==
  IF p.state = "delta" THEN text \o extractContent(p.message)
  ELSE IF p.state \in {"final", "aborted", "error"} THEN ""
  ELSE text

\* options.onChat of the store's client: the reducer applied to the store.
OnChatStore(p) ==
  /\ nchat < MaxChat
  /\ nchat' = nchat + 1
  /\ sessionChats' = [sessionChats EXCEPT ![ChatKey(p)] = ChatAfter(@, p)]
  /\ runText' = [runText EXCEPT ![ChatKey(p)][p.runId] = TextAfter(@, p)]
  /\ UNCHANGED <<clientVars, envVars, microtasks, lastTask, effects, handlerVars,
                 activeSessionKey, identityVars, widgetVars>>

OnChat(p) == OnChatStore(p) /\ UNCHANGED chatLog

\* A message of a chat.history result: its role and its content.
ServerMessage(role, m) == [role |-> role, message |-> m]

\* The chat.history results: an empty history, and a user message followed by
\* a system message whose content is a list of parts.
Histories ==
  {<<>>,
   <<ServerMessage("user", StringMessage("hi")),
     ServerMessage("system", PartsMessage(<<TextPart("ok")>>))>>}

\* loadHistory: the message it makes of one message of the result.
HistoryMessage(sm) ==
  ChatMessage(IF sm.role = "user" THEN "user" ELSE "assistant",
              extractContent(sm.message), "", FALSE)

\* loadHistory(key) after its request resolved: the result replaces the chat.
HistoryLoadedStore(key, hist) ==
  /\ nchat < MaxChat
  /\ nchat' = nchat + 1
  /\ sessionChats' = [sessionChats EXCEPT ![key] =
                        [messages |-> [i \in 1..Len(hist) |-> HistoryMessage(hist[i])],
                         streaming |-> FALSE, streamingRunId |-> ""]]
  /\ UNCHANGED <<clientVars, envVars, microtasks, lastTask, effects, handlerVars,
                 activeSessionKey, runText, identityVars, widgetVars>>

HistoryLoaded(key, hist) == HistoryLoadedStore(key, hist) /\ UNCHANGED chatLog

\* The store of a page whose client was constructed with a stored identity.
InitChat == Init /\ urlOk /\ lsIdentity = 1

NextChat ==
  \/ \E p \in ChatPayloads : OnChat(p)
  \/ \E key \in SessionKeys, hist \in Histories : HistoryLoaded(key, hist)

SpecChat == InitChat /\ [][NextChat]_vars

(***************************************************************************)
(* The store with its client.  The store constructs the client in its      *)
(* connect(), called once here and on a page with a stored identity, and   *)
(* holds it from then on; chat events reach the reducer through the        *)
(* client's transport.                                                     *)
(***************************************************************************)

\* The store's client field is set: connect() has constructed the client.
StoreHasClient == nws > 0

\* The store's connect(): new GatewayClient(...), then client.connect().
StoreConnect == ~StoreHasClient /\ Connect

\* An abortStream() that also ends the stream locally: it makes the request
\* and marks the active session as not streaming.
StoreAbortStreamFinalizes ==
  /\ StoreHasClient
  /\ microtasks = <<>>
  /\ reqSeq < MaxReq
  /\ reqSeq' = reqSeq + 1
  /\ pendingRequests' = pendingRequests \cup {reqSeq + 1}
  /\ req' = [req EXCEPT ![reqSeq + 1] = NewReq("chat.abort", 0)]
  /\ effects' = RequestEffects("chat.abort", reqSeq + 1)
  /\ lastTask' = Task("request", SendWs, reqSeq + 1, SendWs # 0)
  /\ sessionChats' = [sessionChats EXCEPT ![activeSessionKey].streaming = FALSE,
                                          ![activeSessionKey].streamingRunId = ""]
  /\ UNCHANGED <<ws, state, challenge, deviceToken, connected, urlOk, optToken,
                 sockets, nws, hs, nhs, lsIdentity, lsToken, microtasks>>
  /\ UNCHANGED <<handlerVars, activeSessionKey, runText, chatLog, nchat, identityVars,
                 widgetVars>>

\* The store's abortStream(): nothing without a client; else
\* client.abortRun(activeSessionKey, chat?.streamingRunId ?? undefined), the
\* request chat.abort, whatever the chat of the active session holds.
StoreAbortStream ==
  IF StoreHasClient
  THEN CallRequest("chat.abort")
  ELSE /\ microtasks = <<>>
       /\ lastTask' = Task("abortStream", 0, 0, FALSE)
       /\ effects' = <<>>
       /\ UNCHANGED <<clientVars, envVars, microtasks, handlerVars, storeVars,
                      identityVars, widgetVars>>

\* A chat event frame on a transport that delivers to the client:
\* handleEvent calls options.onChat(payload), the reducer.
ChatDelivered(t, p) ==
  /\ microtasks = <<>>
  /\ Delivering(t)
  /\ sockets[t].onmessage
  /\ OnChat(p)

\* The chat events of one run of the active session: its deltas and its end.
StreamPayloads ==
  {p \in ChatPayloads : /\ p.sessionKey = ""
                        /\ p.runId = "r1"
                        /\ p.state \in {"delta", "final", "aborted"}
                        /\ p.message.kind # "parts"
                        /\ p.state = "delta" => p.message.kind = "string"}

NextCalls ==
  \/ StoreConnect
  \/ StoreAbortStream
  \/ \E t \in 1..MaxWs : TransportOpen(t)
  \/ \E t \in 1..MaxWs : HandleChallenge(t)
  \/ \E h \in 1..MaxHs, ok \in BOOLEAN : SignDone(h, ok)
  \/ \E t \in 1..MaxWs, id \in 1..MaxReq, ok \in BOOLEAN, val \in OkPayloads \cup ErrTexts :
       HandleRes(t, id, ok, val)
  \/ RunMicrotask
  \/ \E t \in 1..MaxWs, p \in StreamPayloads : ChatDelivered(t, p)

SpecCalls == InitChat /\ [][NextCalls]_vars

(***************************************************************************)
(* The chat store with a log of the operations applied to each session:    *)
(* a chat event is logged under the session key it carries, or under the   *)
(* active session when it carries none.                                    *)
(***************************************************************************)
LogEntry(op, p, hist) == [op |-> op, p |-> p, hist |-> hist]

OnChatLogged(p) ==
  /\ nchat < MaxLog
  /\ OnChatStore(p)
  /\ chatLog' = [chatLog EXCEPT ![IF p.sessionKey # "" THEN p.sessionKey ELSE activeSessionKey] =
                    Append(@, LogEntry("chat", p, <<>>))]

HistoryLoadedLogged(key, hist) ==
  /\ nchat < MaxLog
  /\ HistoryLoadedStore(key, hist)
  /\ chatLog' = [chatLog EXCEPT ![key] =
                    Append(@, LogEntry("history", Payload("", "", "", NoMessage, ""), hist))]

NextSessions ==
  \/ \E p \in ChatPayloads : OnChatLogged(p)
  \/ \E key \in SessionKeys, hist \in Histories : HistoryLoadedLogged(key, hist)

SpecSessions == InitChat /\ [][NextSessions]_vars

(***************************************************************************)
(* Properties.                                                             *)
(***************************************************************************)

\* Requests allocated so far, and those whose promise is not settled.
Issued == 1..reqSeq
Unsettled == {i \in Issued : req[i].outcome = "pending"}

\* The task that ran last has finished together with its continuations.
TurnDone == microtasks = <<>>

\* Positions of an effect in the effects of the current turn.
EffectAt(e, a) == {k \in 1..Len(effects) : effects[k].e = e /\ effects[k].a = a}
EffectsOf(e) == {k \in 1..Len(effects) : effects[k].e = e}

\* C1: after disconnect(), called in any state, no request is left pending,
\* the correlation table is empty and the client is in state disconnected.
C1_DisconnectRejectsPending ==
  lastTask.op = "disconnect" =>
    /\ Unsettled = {}
    /\ pendingRequests = {}
    /\ state = "disconnected"

\* C2: after connect() replaced a transport there is exactly one live
\* transport, and no request written to the replaced transport is left pending.
C2_ReconnectRejectsPending ==
  (lastTask.op = "connect" /\ lastTask.hit) =>
    /\ Cardinality({t \in 1..MaxWs : Live(t)}) = 1
    /\ \A i \in Issued : req[i].ws = lastTask.t => req[i].outcome # "pending"

\* C3: a frame delivered by a transport that connect() has replaced does
\* nothing: it settles no request, changes no state, starts no handshake and
\* invokes no callback.
C3_StaleFrameDropped ==
  (/\ lastTask.op \in {"res", "challenge", "event", "malformed", "message"}
   /\ lastTask.t # ws) =>
    /\ effects = <<>>
    /\ microtasks = <<>>

\* C4: every request is settled at most once and leaves the correlation table
\* exactly when it is settled; after the close handler ran, the table is
\* empty, nothing is pending, and every rejection it made carries the
\* disconnection error.
C4_SettledOnceAndSweptOnClose ==
  /\ \A i \in 1..MaxReq :
       /\ req[i].settles <= 1
       /\ i \in pendingRequests <=> req[i].outcome = "pending"
       /\ req[i].settles = 1 <=> req[i].outcome \in {"resolved", "rejected", "disconnected"}
  /\ (lastTask.op = "close" /\ lastTask.hit) =>
       /\ pendingRequests = {}
       /\ Unsettled = {}
       /\ \A k \in EffectsOf("reject") :
            effects[k].a = "disconnected" /\ req[effects[k].n].outcome = "disconnected"

\* Witness for C4: the close handler swept two pending requests.
C4_Witness ==
  /\ lastTask.op = "close"
  /\ lastTask.hit
  /\ Cardinality(EffectsOf("reject")) = 2

\* The other case of C4: a duplicate response arrived for a request that a
\* response had settled.
C4_WitnessDuplicate ==
  /\ lastTask.op = "res"
  /\ ~lastTask.hit
  /\ lastTask.id # 0
  /\ req[lastTask.id].outcome = "resolved"

\* C5: a response frame whose id matches no pending request changes nothing
\* in the client, settles nothing, schedules nothing and invokes no callback.
C5_UnmatchedResponseIgnored ==
  [][(lastTask'.op = "res" /\ ~lastTask'.hit) =>
       /\ UNCHANGED <<clientVars, sockets, req, hs, lsIdentity, lsToken, microtasks>>
       /\ effects' = <<>>]_vars

\* Witness for C5: a response for an id that is no longer in the table arrived
\* during the handshake, while another request was pending.
C5_Witness ==
  /\ lastTask.op = "res"
  /\ ~lastTask.hit
  /\ lastTask.id # 0
  /\ pendingRequests # {}
  /\ state = "authenticating"
\* C6: a response frame for a pending request settles that request only,
\* resolving it on ok and rejecting it otherwise; every other request is left
\* as it was and handleFrame changes neither the state nor the transport.  For
\* a request other than connect no state change follows in the same turn.
C6_ResponseSettlesOnlyItsRequest ==
  [][/\ \A t \in 1..MaxWs, id \in 1..MaxReq :
          (lastTask'.op = "res" /\ lastTask'.hit /\ lastTask'.t = t /\ lastTask'.id = id) =>
            \A ok \in BOOLEAN, val \in OkPayloads \cup ErrTexts :
              HandleRes(t, id, ok, val) =>
                /\ id \in pendingRequests
                /\ req'[id].outcome = (IF ok THEN "resolved" ELSE "rejected")
                /\ req'[id].settles = 1
                /\ \A j \in (1..MaxReq) \ {id} : req'[j] = req[j]
                /\ pendingRequests' = pendingRequests \ {id}
                /\ state' = state
                /\ connected' = connected
                /\ ws' = ws
     /\ ((lastTask.op = "res" /\ lastTask.hit /\ req[lastTask.id].method # "connect") =>
           /\ EffectsOf("onStateChange") = {}
           /\ Cardinality(EffectsOf("resolve") \cup EffectsOf("reject")) = 1)']_vars

\* Witness for C6: a response rejected one of two requests in flight on the
\* same transport and the other is still pending.
C6_Witness ==
  /\ lastTask.op = "res"
  /\ lastTask.hit
  /\ req[lastTask.id].outcome = "rejected"
  /\ \E j \in pendingRequests : j < lastTask.id /\ req[j].ws = lastTask.t

\* The close came right after a handshake that the server rejected.
AfterFailedHandshake ==
  /\ lastTask.op = "res"
  /\ lastTask.hit
  /\ req[lastTask.id].method = "connect"
  /\ req[lastTask.id].outcome = "rejected"
  /\ state = "error"

\* C7: the close handler leaves the client disconnected, or in error when the
\* close followed a failed handshake, and in both cases empties the table.
C7_CloseState ==
  [][\A t \in 1..MaxWs :
       (TransportClose(t) /\ sockets[t].onclose) =>
         /\ state' = (IF AfterFailedHandshake THEN "error" ELSE "disconnected")
         /\ pendingRequests' = {}]_vars

\* C8: after the error handler ran the client is in error and no request is
\* left pending.
C8_ErrorSweeps ==
  (lastTask.op = "error" /\ lastTask.hit) =>
    /\ state = "error"
    /\ pendingRequests = {}
    /\ Unsettled = {}

\* C9: a frame that cannot be parsed or is no frame leaves state, transport,
\* correlation table, promises and handshakes as they were, invokes no
\* callback, and the transport keeps delivering to the same onmessage handler.
C9_MalformedFrameDropped ==
  [][\A t \in 1..MaxWs :
       (lastTask'.op = "malformed" /\ lastTask'.t = t) =>
         \A kind \in MalformedKinds :
           MalformedFrame(t, kind) =>
             /\ UNCHANGED <<clientVars, sockets, req, hs, lsIdentity, lsToken, microtasks>>
             /\ effects' = <<>>
             /\ sockets'[t].onmessage
             /\ Delivering(t)']_vars

\* Witness for C9: a malformed frame arrived on the current transport of a
\* connected client with a request pending.
C9_Witness ==
  /\ lastTask.op = "malformed"
  /\ lastTask.t = ws
  /\ state = "connected"
  /\ pendingRequests # {}

\* The turn in which the response to connect request i resolved it has finished.
ConnectResolved(i) ==
  /\ lastTask.op = "res"
  /\ lastTask.hit
  /\ lastTask.id = i
  /\ req[i].method = "connect"
  /\ req[i].outcome = "resolved"
  /\ TurnDone

C10_WitnessNoToken ==
  \E i \in Issued : ConnectResolved(i) /\ effects[1].a = ""

\* C11: a handshake reads its token once, when it resumes with the identity:
\* the device token stored for that identity if there is one, else the
\* caller's token if there is one, else the empty string; the connect request
\* it makes, in that task or after signing, carries an auth block holding
\* the token it read.
C11_AuthTokenPriority ==
  [][\A h \in 1..MaxHs :
       LET stored == lsToken[hs[h].ident]
           want == IF stored # "" THEN stored ELSE IF optToken # "" THEN optToken ELSE ""
       IN /\ (hs[h].stage = "identity" /\ hs'[h].stage # "identity") =>
               /\ hs'[h].stage \in {"sign", "request"}
               /\ hs'[h].token = want
          /\ (hs[h].stage # "request" /\ hs'[h].stage = "request") =>
               /\ hs[h].stage \in {"identity", "sign"}
               /\ reqSeq' = reqSeq + 1
               /\ req'[reqSeq'].method = "connect"
               /\ req'[reqSeq'].hs = h
               /\ hs'[h].req = reqSeq'
               /\ ConnectParams(h)'.auth =
                    <<IF hs[h].stage = "sign" THEN hs[h].token ELSE want>>]_vars

\* Witness for C11: a client constructed after a reload sends, in its connect
\* request, the token an earlier handshake stored, although the caller
\* supplied a token of its own.
C11_Witness ==
  \E h \in 1..MaxHs :
    /\ hs[h].stage = "request"
    /\ ConnectParams(h).auth = <<"tok1">>
    /\ optToken = "cfg"
    /\ deviceToken = ""
    /\ Eff("send", "connect", hs[h].req) \in {effects[k] : k \in 1..Len(effects)}

\* The other cases of C11: the caller's token, and the empty token.
C11_WitnessCallerToken ==
  \E h \in 1..MaxHs : hs[h].stage = "request" /\ ConnectParams(h).auth = <<"cfg">>

C11_WitnessEmptyToken ==
  \E h \in 1..MaxHs : hs[h].stage = "request" /\ ConnectParams(h).auth = <<"">>

\* C12: when signing fails the handshake still makes its connect request, in
\* the same task, without a device block and with the auth block holding the
\* token read before; the frame is written if the current transport is open,
\* as it is for any request, and the state is left alone.
C12_SignFailureStillConnects ==
  [][\A h \in 1..MaxHs :
       SignDone(h, FALSE) =>
         LET id == reqSeq + 1
         IN /\ reqSeq' = id
            /\ id \in pendingRequests'
            /\ req'[id].method = "connect"
            /\ req'[id].outcome = "pending"
            /\ req'[id].hs = h
            /\ hs'[h].stage = "request"
            /\ hs'[h].req = id
            /\ ~ConnectParams(h)'.device
            /\ ConnectParams(h)'.auth = <<hs[h].token>>
            /\ effects'[1] = Eff("request", "connect", id)
            /\ (ws # 0 /\ sockets[ws].readyState = "open")
                 <=> (Len(effects') = 2 /\ effects'[2] = Eff("send", "connect", id))
            /\ state' = state]_vars

\* Witness for C12: signing failed and the connect frame was written.
C12_Witness ==
  /\ lastTask.op = "sign"
  /\ ~lastTask.hit
  /\ Len(effects) = 2
  /\ effects[2].e = "send"
  /\ ~hs[lastTask.id].device

\* The requests rejected in the current turn, by position in the effects.
RejectedConnects ==
  {k \in EffectsOf("reject") : req[effects[k].n].method = "connect"}

\* The number of positions of S up to k, and the i-th position of S.
Rank(S, k) == Cardinality({j \in S : j <= k})

Nth(S, i) == CHOOSE j \in S : Rank(S, j) = i

\* C13: in a finished turn in which connect requests were rejected, each
\* rejection was followed, in the order of the rejections, by one move to
\* error and then one report of its text through onDisconnect, and the client
\* is in error; onDevicePairingRequired was invoked once, after the rejection
\* and before the move to error, when the text is a pairing text, and not at
\* all otherwise.
C13_HandshakeRejected ==
  (TurnDone /\ RejectedConnects # {}) =>
    LET R == RejectedConnects
        err == {j \in EffectAt("onStateChange", "error") : \E k \in R : j > k}
        dis == {j \in EffectsOf("onDisconnect") : \E k \in R : j > k}
        pair == EffectsOf("onDevicePairingRequired")
    IN /\ state = "error"
       /\ Cardinality(err) = Cardinality(R)
       /\ Cardinality(dis) = Cardinality(R)
       /\ Cardinality(pair) = Cardinality({k \in R : effects[k].a = "pairing required"})
       /\ \A k \in R :
            LET msg == effects[k].a
                i == Rank(R, k)
                e == Nth(err, i)
                d == Nth(dis, i)
            IN /\ k < e
               /\ e < d
               /\ effects[d].a = msg
               /\ \A j \in err : j > e => j > d
               /\ msg = "pairing required" =>
                    \E q \in pair : /\ k < q
                                    /\ q < e
                                    /\ \A j \in dis : j < e => j < q

\* Witness for C13: the server rejected the connect request with a pairing text.
C13_Witness ==
  /\ TurnDone
  /\ lastTask.op = "res"
  /\ \E k \in RejectedConnects : effects[k].a = "pairing required"

\* The other cases of C13: a rejection without pairing text, and a connect
\* request rejected by the close handler.
C13_WitnessPlain ==
  /\ TurnDone
  /\ lastTask.op = "res"
  /\ \E k \in RejectedConnects : effects[k].a = "unauthorized"

C13_WitnessClose ==
  /\ TurnDone
  /\ lastTask.op = "close"
  /\ RejectedConnects # {}

\* C14: every event frame gets its built-in handling and is then delivered to
\* every handler registered for its name: an event other than the challenge
\* within its task (for chat after onChat), the challenge when the handshake
\* it started has ended.
C14_EventFanOut ==
  [][/\ \A t \in 1..MaxWs, ev \in EventNames :
          HandleEvent(t, ev) =>
            \A h \in Handlers :
              Registered(ev, h) =>
                \E k \in 1..Len(effects') :
                  /\ effects'[k] = Eff("handler", ev, h)
                  /\ ev = "chat" => \E j \in 1..(k - 1) : effects'[j].e = "onChat"
     /\ (RunConnectOk \/ RunConnectFail) =>
          \A h \in Handlers :
            Registered("connect.challenge", h) =>
              \E k \in 1..Len(effects') :
                effects'[k] = Eff("handler", "connect.challenge", h)]_vars

\* C15: calling an unsubscribe closure removes the handler it captured from
\* the set of its event name and nothing else: the other handlers of that name
\* keep their order, the sets of the other names are untouched, and a call
\* that finds the handler absent changes nothing.  Only on() and unsubscribe
\* closures change the sets, on() adds exactly its handler, and an event is
\* delivered once to each handler registered at that time and to no other.
C15_UnsubscribeRemovesExactly ==
  [][/\ \A c \in 1..MaxOn, ev \in AllEvents, h \in Handlers :
          (Unsubscribe(c) /\ unsubs[c].ev = ev /\ unsubs[c].h = h) =>
            /\ \A k \in 1..Len(eventHandlers'[ev]) : eventHandlers'[ev][k] # h
            /\ eventHandlers'[ev] = SelectSeq(eventHandlers[ev], LAMBDA g : g # h)
            /\ \A g \in Handlers \ {h} :
                 Registered(ev, g) <=> \E k \in 1..Len(eventHandlers'[ev]) : eventHandlers'[ev][k] = g
            /\ \A e \in AllEvents \ {ev} : eventHandlers'[e] = eventHandlers[e]
            /\ ~Registered(ev, h) => eventHandlers' = eventHandlers
     /\ \A ev \in AllEvents, h \in Handlers :
          On(ev, h) =>
            /\ \E k \in 1..Len(eventHandlers'[ev]) : eventHandlers'[ev][k] = h
            /\ \A e \in AllEvents \ {ev} : eventHandlers'[e] = eventHandlers[e]
            /\ \A g \in Handlers \ {h} :
                 Registered(ev, g) <=> \E k \in 1..Len(eventHandlers'[ev]) : eventHandlers'[ev][k] = g
     /\ eventHandlers' # eventHandlers => lastTask'.op \in {"on", "unsubscribe"}
     /\ \A t \in 1..MaxWs, ev \in EventNames :
          HandleEvent(t, ev) =>
            \A h \in Handlers :
              Cardinality({k \in 1..Len(effects') : effects'[k] = Eff("handler", ev, h)})
                = (IF Registered(ev, h) THEN 1 ELSE 0)]_vars

\* Witness for C15: two handlers were registered for tick, the closure of the
\* first was called, and the next tick event went to the second handler only.
C15_Witness ==
  /\ lastTask.op = "event"
  /\ effects = <<Eff("handler", "tick", 2)>>
  /\ Len(unsubs) = 2
  /\ unsubs[1] = [ev |-> "tick", h |-> 1, called |-> TRUE]
  /\ unsubs[2] = [ev |-> "tick", h |-> 2, called |-> FALSE]

\* C15 as stated: calling an unsubscribe closure again changes nothing.
C15_UnsubscribeAgainNoop ==
  [][\A c \in 1..MaxOn :
       (Unsubscribe(c) /\ unsubs[c].called) => eventHandlers' = eventHandlers]_vars

\* The position of the most recent message of run r in a log, 0 when there
\* is none.
MostRecent(msgs, r) ==
  IF \E i \in 1..Len(msgs) : msgs[i].runId = r
  THEN CHOOSE i \in 1..Len(msgs) :
         msgs[i].runId = r /\ \A j \in (i + 1)..Len(msgs) : msgs[j].runId # r
  ELSE 0

\* C16: while a run has not ended, the most recent message of the run in the
\* log of its session holds the text of all its deltas since it last ended,
\* in arrival order, whatever else was applied to the session in between.
C16_DeltaConcatenation ==
  \A k \in SessionKeys, r \in RunIds :
    runText[k][r] # "" =>
      LET msgs == sessionChats[k].messages
          i == MostRecent(msgs, r)
      IN /\ i > 0
         /\ msgs[i].content = runText[k][r]

\* C17: a final or aborted event sets partial to false on the most recent
\* message of its run, sets aborted only when it is an aborted event, leaves
\* the content, role and runId of that message and every other message as
\* they were, and adds or removes no message.
C17_FinalFreezesMostRecent ==
  [][\A p \in ChatPayloads :
       (OnChat(p) /\ p.state \in {"final", "aborted"}) =>
         LET k == IF p.sessionKey # "" THEN p.sessionKey ELSE activeSessionKey
             old == sessionChats[k].messages
             new == sessionChats'[k].messages
             i == MostRecent(old, p.runId)
         IN /\ Len(new) = Len(old)
            /\ \A j \in 1..Len(old) : j # i => new[j] = old[j]
            /\ i > 0 =>
                 /\ new[i].partial = FALSE
                 /\ new[i].aborted = (IF p.state = "aborted" THEN TRUE ELSE old[i].aborted)
                 /\ new[i].content = old[i].content
                 /\ new[i].role = old[i].role
                 /\ new[i].runId = old[i].runId]_vars

\* Witness for C17: deltas 'Hel' and 'lo' and a final of one run left one
\* assistant message 'Hello' that is not partial.
C17_Witness ==
  /\ nchat = 3
  /\ sessionChats["A"].messages = <<ChatMessage("assistant", "Hello", "r1", FALSE)>>
  /\ ~sessionChats["A"].streaming

\* The other case of C17: the run has two messages and the event froze the
\* most recent one.
C17_WitnessMostRecent ==
  /\ Len(sessionChats["A"].messages) = 3
  /\ sessionChats["A"].messages[1] = ChatMessage("assistant", "Hel", "r1", TRUE)
  /\ sessionChats["A"].messages[3].runId = "r1"
  /\ ~sessionChats["A"].messages[3].partial
  /\ sessionChats["A"].messages[3].aborted

\* C18: an error event sets partial to false on the most recent message of
\* its run and appends the error annotation to its content; it changes no
\* other field of that message, its aborted flag included, and no other message.
C18_ErrorAnnotates ==
  [][\A p \in ChatPayloads :
       (OnChat(p) /\ p.state = "error") =>
         LET k == IF p.sessionKey # "" THEN p.sessionKey ELSE activeSessionKey
             old == sessionChats[k].messages
             new == sessionChats'[k].messages
             i == MostRecent(old, p.runId)
         IN /\ Len(new) = Len(old)
            /\ \A j \in 1..Len(old) : j # i => new[j] = old[j]
            /\ i > 0 =>
                 /\ new[i].partial = FALSE
                 /\ new[i].content =
                      old[i].content \o "\n\n*[Error: "
                        \o (IF p.errorMessage = "" THEN "unknown" ELSE p.errorMessage) \o "]*"
                 /\ new[i].aborted = old[i].aborted
                 /\ new[i].role = old[i].role
                 /\ new[i].runId = old[i].runId]_vars

\* C19: a final, aborted or error event whose run has no message in the log
\* of its session leaves the chat of that session as it was: its messages,
\* its streaming flag and its streamingRunId.
C19_UnmatchedEndIsNoop ==
  [][\A p \in ChatPayloads :
       LET k == IF p.sessionKey # "" THEN p.sessionKey ELSE activeSessionKey
       IN (/\ OnChat(p)
           /\ p.state \in {"final", "aborted", "error"}
           /\ MostRecent(sessionChats[k].messages, p.runId) = 0) =>
            sessionChats'[k] = sessionChats[k]]_vars

\* The chat of a session after the operations of a log, applied in order to
\* the chat of a session nothing was applied to.
RECURSIVE Replay(_)
Replay(log) ==
  IF log = <<>> THEN NoChat
  ELSE LET e == log[Len(log)]
           before == Replay(SubSeq(log, 1, Len(log) - 1))
       IN IF e.op = "chat"
          THEN ChatAfter(before, e.p)
          ELSE [messages |-> [i \in 1..Len(e.hist) |-> HistoryMessage(e.hist[i])],
                streaming |-> FALSE, streamingRunId |-> ""]

\* C20: the chat of every session is the one its own operations alone
\* produce, in their order, however the operations of the sessions interleave.
C20_SessionsIndependent ==
  \A k \in SessionKeys : sessionChats[k] = Replay(chatLog[k])

\* Witness for C20: session A assembled 'Hello' from two deltas of run r1
\* while session B received a delta of the same run.
C20_Witness ==
  /\ chatLog["A"] = <<LogEntry("chat", Payload("A", "delta", "r1", StringMessage("Hel"), ""), <<>>),
                      LogEntry("chat", Payload("A", "delta", "r1",
                                 PartsMessage(<<TextPart("l"), ImagePart, TextPart("o")>>), ""), <<>>)>>
  /\ Len(chatLog["B"]) = 1
  /\ chatLog["B"][1].p.runId = "r1"
  /\ chatLog["B"][1].p.state = "delta"
  /\ sessionChats["A"].messages = <<ChatMessage("assistant", "Hello", "r1", TRUE)>>
  /\ sessionChats["B"].messages = <<ChatMessage("assistant", "Hel", "r1", TRUE)>>


\* C22: a chat.send made while the client is not connected writes no frame to
\* the transport and leaves no entry in the correlation table, and the
\* promise it returns is settled.
C22_SendWhileNotConnected ==
  [][(CallRequest("chat.send") /\ ~IsConnected) =>
       /\ EffectsOf("send")' = {}
       /\ reqSeq' \notin pendingRequests'
       /\ req'[reqSeq'].outcome # "pending"]_vars

\* The part of C22 that the code keeps when the client has no open transport:
\* no frame is written.
C22_NoFrameWithoutTransport ==
  [][(CallRequest("chat.send") /\ (ws = 0 \/ sockets[ws].readyState # "open")) =>
       EffectsOf("send")' = {}]_vars

\* C29: the client moves to authenticating only from connecting, and a
\* connect.challenge event received in another state changes nothing and
\* starts no handshake.
C29_AuthenticatingOnlyFromConnecting ==
  [][\A t \in 1..MaxWs :
       (HandleChallenge(t) \/ HandleChallengeNoPayload(t)) =>
         IF state = "connecting"
         THEN state' = "authenticating"
         ELSE UNCHANGED <<state, challenge, nhs, hs>>]_vars

\* A handshake whose connect request has been made with a device block: the
\* block carries the nonce the handshake signed.
SentDevice(h) == hs[h].stage = "request" /\ hs[h].device

\* C30: every connect request carries the nonce of the challenge that started
\* its handshake (challenge h carries nonce h and starts handshake h), and no
\* nonce is carried by two connect requests.
C30_ChallengeConsumedOnce ==
  /\ \A h \in 1..Len(hs) : SentDevice(h) => hs[h].nonce = h
  /\ \A g, h \in 1..Len(hs) :
       (SentDevice(g) /\ SentDevice(h) /\ g # h) => hs[g].nonce # hs[h].nonce

\* The connect requests made so far.
ConnectRequests == {i \in Issued : req[i].method = "connect"}

\* C23: the client creates a transport, and replaces its current one, only in
\* connect() and disconnect(); the tasks of a transport error and of a
\* transport close, and the handshake when its connect request was rejected,
\* create no transport, make no request and write no frame; a connect request
\* is made only by a handshake a challenge event started, one per challenge.
C23_NoAutomaticReconnect ==
  [][/\ (nws' # nws \/ ws' # ws) => lastTask'.op \in {"connect", "disconnect"}
     /\ nws' # nws => (nws' = nws + 1 /\ lastTask'.op = "connect")
     /\ lastTask'.op \in {"error", "close"} =>
          /\ reqSeq' = reqSeq
          /\ EffectsOf("send")' = {}
     /\ RunConnectFail =>
          /\ UNCHANGED <<reqSeq, nws, ws, sockets, pendingRequests>>
          /\ Cardinality(EffectsOf("send")') = Cardinality(EffectsOf("send"))
     /\ ConnectRequests' # ConnectRequests =>
          \E h \in 1..Len(hs) : /\ hs[h].stage \in {"identity", "sign"}
                                 /\ hs'[h].stage = "request"
                                 /\ ConnectRequests' = ConnectRequests \cup {hs'[h].req}
     /\ Cardinality(ConnectRequests') <= nhs']_vars

\* Witness for C23: the server rejected the connect request, the handshake
\* has failed, and the client still has the one transport the caller opened.
C23_Witness ==
  /\ TurnDone
  /\ state = "error"
  /\ lastTask.op = "res"
  /\ RejectedConnects # {}
  /\ nws = 1
  /\ ws = 1
  /\ EffectsOf("send") = {}

\* The other cases of C23: a transport error and a transport close the client
\* handled, with no transport created since.
C23_WitnessError ==
  lastTask.op = "error" /\ lastTask.hit /\ state = "error" /\ nws = 1

C23_WitnessClose ==
  TurnDone /\ lastTask.op = "close" /\ lastTask.hit /\ nws = 1 /\ reqSeq > 0

\* C21: abortStream() called while the active session has no streaming run
\* makes no request, writes no frame and changes nothing in the client or
\* the store.
C21_AbortWithoutRunIsNoop ==
  [][(StoreAbortStream /\ ~sessionChats[activeSessionKey].streaming
                        /\ sessionChats[activeSessionKey].streamingRunId = "") =>
       /\ EffectsOf("send")' = {}
       /\ UNCHANGED <<clientVars, req, storeVars>>]_vars

(***************************************************************************)
(* getOrCreateDeviceIdentity() on its own.  Its callers, the store's       *)
(* connect() and the client's doHandshake(), call it whenever they run, so *)
(* a call may start while an earlier one is still generating.  The page    *)
(* starts with whatever an earlier page left in localStorage, and the      *)
(* browser may refuse access to localStorage altogether.                   *)
(***************************************************************************)
InitIdentity ==
  /\ InitPage
  /\ urlOk
  /\ lsIdentity = 0
  /\ IdleWidgets
  /\ keypairItem \in StoredItems
  /\ lsReadable \in BOOLEAN
  /\ idCalls = [c \in 1..MaxCalls |-> NoCall]
  /\ nkeys = 0
  /\ idWrites = 0

\* getOrCreateDeviceIdentity() up to its first await.  getItem is called
\* outside the try block: when it throws, the promise returned is rejected.
IdentityCall(c) ==
  /\ idCalls[c].stage = "none"
  /\ c > 1 => idCalls[c - 1].stage # "none"
  /\ idCalls' = [idCalls EXCEPT ![c] =
       IF ~lsReadable THEN [NoCall EXCEPT !.stage = "threw"]
       ELSE IF StoredIsUsable(keypairItem)
         THEN [stage |-> "returned", result |-> keypairItem.value, generated |-> FALSE]
       ELSE [NoCall EXCEPT !.stage = "generating"]]
  /\ UNCHANGED <<keypairItem, lsReadable, nkeys, idWrites, pageVars, widgetVars>>

\* generateKeypair(): crypto.subtle.generateKey() resolves with the next key
\* pair, which the call holds while the exports and the digest are awaited.
KeyGenerated(c) ==
  /\ idCalls[c].stage = "generating"
  /\ idCalls' = [idCalls EXCEPT ![c] =
       [stage |-> "exporting", result |-> GenerateKeypair(nkeys + 1), generated |-> TRUE]]
  /\ nkeys' = nkeys + 1
  /\ UNCHANGED <<keypairItem, lsReadable, idWrites, pageVars, widgetVars>>

\* generateKeypair() resolves: setItem, return identity.  Nothing is read from
\* storage again.
GenerateDone(c) ==
  /\ idCalls[c].stage = "exporting"
  /\ keypairItem' = Stringify(idCalls[c].result)
  /\ idCalls' = [idCalls EXCEPT ![c].stage = "returned"]
  /\ idWrites' = idWrites + 1
  /\ UNCHANGED <<lsReadable, nkeys, pageVars, widgetVars>>

NextIdentity ==
  \/ \E c \in 1..MaxCalls : IdentityCall(c)
  \/ \E c \in 1..MaxCalls : KeyGenerated(c)
  \/ \E c \in 1..MaxCalls : GenerateDone(c)

SpecIdentity == InitIdentity /\ [][NextIdentity]_vars

\* The calls of getOrCreateDeviceIdentity() that returned an identity.
Returned == {c \in 1..MaxCalls : idCalls[c].stage = "returned"}

\* C24: as long as storage is not cleared, all calls of
\* getOrCreateDeviceIdentity, overlapping ones included, return the same
\* identity, and that identity is the one persisted.
C24_AllCallsReturnSameIdentity ==
  \A c \in Returned :
    /\ \A d \in Returned : idCalls[d].result = idCalls[c].result
    /\ keypairItem = Stringify(idCalls[c].result)

\* C25: a call of getOrCreateDeviceIdentity never throws to its caller,
\* whatever state the persisted record is in: it returns an identity or is
\* still generating one.
C25_NeverThrowsToCaller ==
  \A c \in 1..MaxCalls : idCalls[c].stage # "threw"

\* Two lowercase hexadecimal digits per byte.
RECURSIVE LowerHex(_)
LowerHex(buf) ==
  IF buf = <<>> THEN <<>>
  ELSE <<HexDigits[(Head(buf) \div 16) + 1], HexDigits[(Head(buf) % 16) + 1]>>
       \o LowerHex(Tail(buf))

\* C26: every identity returned by getOrCreateDeviceIdentity, generated or
\* loaded, has as id the lowercase hex digest of the raw public key of its key
\* pair and as publicKeyRaw a text that decodes to that key, so two identities
\* returned for the same key pair carry the same id.
C26_IdIsDigestOfPublicKey ==
  \A c \in Returned :
    LET identity == idCalls[c].result
    IN /\ identity.id = LowerHex(Digest(KeyBytes(identity.publicKeyJwk)))
       /\ B64urlToBytes(identity.publicKeyRaw) = KeyBytes(identity.publicKeyJwk)
       /\ \A d \in Returned :
            idCalls[d].result.publicKeyJwk = identity.publicKeyJwk
              => idCalls[d].result.id = identity.id

\* One call generated an identity whose digest has a byte below 16, and a
\* later call loaded the same identity from storage.
C26_Witness ==
  \E c, d \in Returned :
    /\ idCalls[c].generated
    /\ ~idCalls[d].generated
    /\ idCalls[d].result = idCalls[c].result
    /\ idCalls[c].result.id[3] = "0"

\* A call loaded the identity an earlier page stored, whose public key is
\* written with '-' and '_'.
C26_WitnessStored ==
  \E c \in Returned :
    /\ ~idCalls[c].generated
    /\ nkeys = 0
    /\ idCalls[c].result.publicKeyRaw = <<"-", "_", "8">>

(***************************************************************************)
(* The widget server on its own: clients make PUT and GET requests to      *)
(* /api/widgets and open and drop connections to /api/widgets/events.  A   *)
(* PUT is handled in two tasks, the request and the end of its body, so    *)
(* PUTs overlap; a dropped connection stays in sseClients until its close  *)
(* event is handled.  Nothing but the server writes widgets.json, and the  *)
(* disk does not fail.                                                     *)
(***************************************************************************)
InitWidgets ==
  /\ InitPage
  /\ urlOk
  /\ lsIdentity = 0
  /\ IdleIdentity
  /\ widgetsFile \in {NoText, Garbage, JsonStringify(DefaultDoc, 2)}
  /\ sseClients = {}
  /\ sse = [s \in 1..MaxSse |-> NoSse]
  /\ http = [r \in 1..MaxHttp |-> NoHttp]
  /\ nhttp = 0
  /\ lastPut = <<>>
  /\ watchPending = IF widgetsFile = NoText THEN "unwatched" ELSE "idle"

\* The connections in sseClients whose client is gone: res.write(msg) on one
\* of them may throw.
Gone == {s \in sseClients : sse[s].conn = "gone"}

\* for (const res of sseClients) { res.write(msg) } without the try and catch:
\* the set is left alone and the first throw leaves the loop and the function
BroadcastUncaught(thrown) == [clients |-> sseClients, threw |-> thrown # {}]

\* broadcastWidgetsChanged(), where res.write throws for the connections in
\* thrown: they are deleted, and nothing is thrown to the caller
BroadcastWidgetsChanged(thrown) == [clients |-> sseClients \ thrown, threw |-> FALSE]

\* The clients of the connections in sseClients that are still there receive msg.
Delivered ==
  [s \in 1..MaxSse |->
     IF s \in sseClients /\ sse[s].conn = "open"
     THEN [sse[s] EXCEPT !.got = @ + 1] ELSE sse[s]]

\* fs.watch reports the write: the debounce timer is (re)armed
WatchArmed == IF watchPending = "unwatched" THEN "unwatched" ELSE "armed"

\* handleApi for PUT /api/widgets: the listeners are registered
PutArrives(body) ==
  /\ nhttp < MaxHttp
  /\ nhttp' = nhttp + 1
  /\ http' = [http EXCEPT ![nhttp'] =
       [NoHttp EXCEPT !.method = "PUT", !.body = body, !.stage = "receiving"]]
  /\ UNCHANGED <<widgetsFile, sseClients, sse, lastPut, watchPending, pageVars, identityVars>>

\* req.on('end'): parse, writeWidgets (write the file, broadcast), answer 200;
\* whatever is thrown on the way is answered with 400
PutEnd(r, thrown) ==
  /\ http[r].stage = "receiving"
  /\ IF JsonParses(http[r].body)
     THEN LET data == JsonParse(http[r].body)
              b == BroadcastWidgetsChanged(thrown)
          IN /\ widgetsFile' = JsonStringify(data, 2)
             /\ sseClients' = b.clients
             /\ sse' = Delivered
             /\ watchPending' = WatchArmed
             /\ IF b.threw
                THEN /\ http' = [http EXCEPT ![r].stage = "done", ![r].status = 400,
                                             ![r].reply = ErrorReply, ![r].after = Len(lastPut)]
                     /\ lastPut' = lastPut
                ELSE /\ http' = [http EXCEPT ![r].stage = "done", ![r].status = 200,
                                             ![r].reply = OkReply, ![r].after = Len(lastPut)]
                     /\ lastPut' = Append(lastPut, data)
     ELSE /\ thrown = {}
          /\ http' = [http EXCEPT ![r].stage = "done", ![r].status = 400,
                                  ![r].reply = ErrorReply, ![r].after = Len(lastPut)]
          /\ UNCHANGED <<widgetsFile, sseClients, sse, lastPut, watchPending>>
  /\ UNCHANGED <<nhttp, pageVars, identityVars>>

\* handleApi for GET /api/widgets
GetWidgets ==
  /\ nhttp < MaxHttp
  /\ nhttp' = nhttp + 1
  /\ http' = [http EXCEPT ![nhttp'] =
       [method |-> "GET", body |-> NoText, stage |-> "done", status |-> 200,
        reply |-> JsonStringify(ReadWidgets(widgetsFile), 0), after |-> Len(lastPut)]]
  /\ UNCHANGED <<widgetsFile, sseClients, sse, lastPut, watchPending, pageVars, identityVars>>

\* handleApi for GET /api/widgets/events
SseConnect(s) ==
  /\ sse[s].conn = "none"
  /\ s > 1 => sse[s - 1].conn # "none"
  /\ sse' = [sse EXCEPT ![s] = [conn |-> "open", got |-> 0, since |-> Len(lastPut)]]
  /\ sseClients' = sseClients \cup {s}
  /\ UNCHANGED <<widgetsFile, http, nhttp, lastPut, watchPending, pageVars, identityVars>>

\* The client of a connection goes away; the server has not noticed yet.
SseDisconnect(s) ==
  /\ sse[s].conn = "open"
  /\ sse' = [sse EXCEPT ![s].conn = "gone"]
  /\ UNCHANGED <<widgetsFile, sseClients, http, nhttp, lastPut, watchPending, pageVars, identityVars>>

\* req.on('close', () => sseClients.delete(res))
SseClose(s) ==
  /\ sse[s].conn = "gone"
  /\ sse' = [sse EXCEPT ![s].conn = "closed"]
  /\ sseClients' = sseClients \ {s}
  /\ UNCHANGED <<widgetsFile, http, nhttp, lastPut, watchPending, pageVars, identityVars>>

\* The debounce timer of the file watcher fires: broadcastWidgetsChanged()
WatchBroadcast(thrown) ==
  /\ watchPending = "armed"
  /\ watchPending' = "idle"
  /\ sseClients' = BroadcastWidgetsChanged(thrown).clients
  /\ sse' = Delivered
  /\ UNCHANGED <<widgetsFile, http, nhttp, lastPut, pageVars, identityVars>>

NextWidgets ==
  \/ \E body \in Bodies : PutArrives(body)
  \/ \E r \in 1..MaxHttp : \E thrown \in SUBSET Gone : PutEnd(r, thrown)
  \/ GetWidgets
  \/ \E s \in 1..MaxSse : SseConnect(s)
  \/ \E s \in 1..MaxSse : SseDisconnect(s)
  \/ \E s \in 1..MaxSse : SseClose(s)
  \/ \E thrown \in SUBSET Gone : WatchBroadcast(thrown)

SpecWidgets == InitWidgets /\ [][NextWidgets]_vars

\* The requests of a method that were answered.
Answered(method) == {r \in 1..MaxHttp : http[r].method = method /\ http[r].stage = "done"}

\* C27: a GET answered after a PUT was answered 200 returns the document of
\* the latest such PUT; every PUT with a JSON body is answered 200 and leaves
\* its document in the file, also when PUTs overlap, so that the file holds
\* the document of the PUT answered last; a PUT with a malformed body is
\* answered 400 and leaves file and latest document as they were.
C27_GetReturnsLatestPut ==
  [][ /\ \A r \in 1..MaxHttp :
           (http'[r].method = "GET" /\ http'[r].stage = "done") =>
             /\ http'[r].status = 200
             /\ JsonParses(http'[r].reply)
             /\ http'[r].after > 0 => JsonParse(http'[r].reply) = lastPut'[http'[r].after]
      /\ \A r \in 1..MaxHttp :
           (http[r].stage = "receiving" /\ http'[r].stage = "done") =>
             IF JsonParses(http[r].body)
             THEN /\ http'[r].status = 200
                  /\ lastPut' = Append(lastPut, JsonParse(http[r].body))
                  /\ JsonParses(widgetsFile')
                  /\ JsonParse(widgetsFile') = JsonParse(http[r].body)
             ELSE /\ http'[r].status = 400
                  /\ lastPut' = lastPut
                  /\ widgetsFile' = widgetsFile
      /\ lastPut' # <<>> =>
           /\ JsonParses(widgetsFile')
           /\ JsonParse(widgetsFile') = lastPut'[Len(lastPut')]
           /\ \E r \in 1..MaxHttp : http'[r].method = "PUT" /\ http'[r].status = 200
                                    /\ JsonParse(http'[r].body) = lastPut'[Len(lastPut')]
    ]_vars

\* Two PUTs with different documents overlapped and were answered in the
\* reverse order of their arrival; a GET made after both returned the document
\* of the PUT answered last, the one that arrived first.
C27_Witness ==
  /\ {1, 2} \subseteq Answered("PUT")
  /\ http[1].status = 200 /\ http[2].status = 200
  /\ http[2].after = 0 /\ http[1].after = 1
  /\ http[1].body # http[2].body
  /\ 3 \in Answered("GET")
  /\ http[3].after = 2
  /\ JsonParse(http[3].reply) = JsonParse(http[1].body)

\* A PUT with a malformed body was answered 400 after a PUT had stored a
\* document, and a later GET returned that document.
C27_WitnessMalformed ==
  /\ {1, 2} \subseteq Answered("PUT")
  /\ http[1].status = 200
  /\ http[2].body = Garbage /\ http[2].status = 400 /\ http[2].after = 1
  /\ 3 \in Answered("GET")
  /\ JsonParse(http[3].reply) = JsonParse(http[1].body)
  /\ JsonParse(http[3].reply) # DefaultDoc

\* C28: whatever connections to /api/widgets/events were opened and dropped,
\* every PUT with a JSON body that was answered was answered 200 and every GET
\* 200; a connection whose close was handled is not in sseClients; a
\* connection whose client is still there is in sseClients and has received
\* at least one widgets-changed message for each PUT answered 200 since it
\* was added.
C28_DroppedSubscriberIsHarmless ==
  /\ \A r \in Answered("PUT") : JsonParses(http[r].body) => http[r].status = 200
  /\ \A r \in Answered("GET") : http[r].status = 200
  /\ \A s \in 1..MaxSse :
       /\ sse[s].conn = "closed" => s \notin sseClients
       /\ sse[s].conn = "none" => s \notin sseClients
       /\ sse[s].conn = "open" =>
            /\ s \in sseClients
            /\ sse[s].got >= Len(lastPut) - sse[s].since

\* A PUT was answered 200 while the first connection was dropped and its close
\* not yet handled: the write to it threw and it was deleted from sseClients;
\* the second connection received the message of that PUT.
C28_Witness ==
  /\ sse[1].conn = "gone"
  /\ 1 \notin sseClients
  /\ sse[1].got < Len(lastPut) - sse[1].since
  /\ sse[2].conn = "open"
  /\ sse[2].got >= 1
  /\ \E r \in Answered("PUT") : http[r].status = 200 /\ http[r].after >= sse[2].since

\* As C28_Witness, but the write to the dropped connection did not throw: the
\* connection is still in sseClients when the PUT has been answered.
C28_WitnessSilent ==
  /\ sse[1].conn = "gone"
  /\ 1 \in sseClients
  /\ sse[1].got < Len(lastPut) - sse[1].since
  /\ \E r \in Answered("PUT") : http[r].status = 200

\* C31: when generateKeypair() fails during a handshake the client leaves
\* authenticating: the task of the failure sets state error and reports the
\* failure through onDisconnect.
C31_KeygenFailureSurfaces ==
  (lastTask.op = "keygen" /\ ~lastTask.hit /\ TurnDone) =>
    /\ state = "error"
    /\ EffectsOf("onDisconnect") # {}

\* C36: whenever isConnected() is true the current transport is open and is
\* the one the resolved connect request was written to.
C36_ConnectedMeansOpenTransport ==
  IsConnected =>
    /\ ws # 0
    /\ sockets[ws].readyState = "open"
    /\ \E i \in Issued : /\ req[i].method = "connect"
                         /\ req[i].outcome = "resolved"
                         /\ req[i].ws = ws

\* C37: when a close event rejects an outstanding connect request, the turn
\* of that close invokes onDisconnect once and ends in state disconnected.
C37_CloseDuringHandshake ==
  (/\ lastTask.op = "close"
   /\ lastTask.hit
   /\ TurnDone
   /\ \E k \in EffectsOf("reject") : req[effects[k].n].method = "connect") =>
    /\ Cardinality(EffectsOf("onDisconnect")) = 1
    /\ state = "disconnected"

\* The callbacks of the client's collaborator.
Callbacks == {"onStateChange", "onChat", "onSessions", "onDisconnect", "onDevicePairingRequired"}

\* disconnect() was called after the last connect(): the client holds no
\* transport though it has opened one.
AfterDisconnect == ws = 0 /\ nws > 0

\* What the step did: all effects of a task, or those a continuation added.
NewEffects ==
  IF microtasks = <<>> THEN effects' ELSE SubSeq(effects', Len(effects) + 1, Len(effects'))

\* C40: between the return of disconnect() and the next connect() no step
\* invokes a callback or writes a frame.
C40_SilentAfterDisconnect ==
  [][(AfterDisconnect /\ lastTask'.op \notin {"connect", "disconnect"}) =>
       \A k \in 1..Len(NewEffects) : NewEffects[k].e \notin Callbacks \cup {"send"}]_vars

\* A doHandshake() is suspended at one of its await points.
HandshakeSuspended == \E h \in 1..Len(hs) : hs[h].stage \in {"keygen", "sign", "request"}

\* C32: the task of the arrival of an event frame makes all the calls the
\* frame leads to, onChat for a chat event and then the handlers registered for
\* its name in their order, and leaves no continuation; no other step makes
\* such a call.  The calls are therefore made frame by frame in the order of
\* arrival, whether or not a handshake is suspended.
C32_DispatchInArrivalOrder ==
  [][/\ \A t \in 1..MaxWs, ev \in EventNames :
          HandleEvent(t, ev) =>
            /\ effects' = (IF ev = "chat" THEN <<Eff("onChat", "chat", 0)>> ELSE <<>>)
                          \o [k \in 1..Len(eventHandlers[ev]) |->
                                Eff("handler", ev, eventHandlers[ev][k])]
            /\ microtasks' = <<>>
            /\ lastTask' = Task("event", t, 0, ev = "chat")
     /\ (~ \E t \in 1..MaxWs, ev \in EventNames : HandleEvent(t, ev)) =>
          \A k \in 1..Len(NewEffects) : NewEffects[k].e \notin {"onChat", "handler"}]_vars

\* A chat event arrived while a handshake was suspended and was delivered to
\* onChat and to two handlers in the order of their registration.
C32_Witness ==
  /\ HandshakeSuspended
  /\ lastTask.op = "event"
  /\ effects = <<Eff("onChat", "chat", 0), Eff("handler", "chat", 2), Eff("handler", "chat", 1)>>

\* The session a chat event is filed under.
KeyOf(p) == IF p.sessionKey # "" THEN p.sessionKey ELSE activeSessionKey

\* A delta of run p.runId arrives while another run is the session's active
\* run and that run's partial message is the last of the log.
DeltaForOtherRun(p) ==
  LET chat == sessionChats[KeyOf(p)]
      n == Len(chat.messages)
  IN /\ p.state = "delta"
     /\ chat.streaming
     /\ chat.streamingRunId \notin {"", p.runId}
     /\ n > 0
     /\ chat.messages[n].partial
     /\ chat.messages[n].runId = chat.streamingRunId

C34_FrozenMessageImmutable ==
  [][\A p \in ChatPayloads :
       OnChat(p) =>
         \A k \in SessionKeys :
           \A i \in 1..Len(sessionChats[k].messages) :
             LET old == sessionChats[k].messages[i]
             IN (old.runId # "" /\ ~old.partial) =>
                  /\ Len(sessionChats'[k].messages) >= i
                  /\ sessionChats'[k].messages[i].content = old.content
                  /\ ~sessionChats'[k].messages[i].partial]_vars

\* C38: a session that is not streaming has no partial message.
C38_IdleSessionHasNoPartial ==
  \A k \in SessionKeys :
    (~sessionChats[k].streaming /\ sessionChats[k].streamingRunId = "") =>
      \A i \in 1..Len(sessionChats[k].messages) : ~sessionChats[k].messages[i].partial

\* C39: a chat.history result applied to a session whose active run has a
\* partial message keeps that message, the streaming flag and the
\* streamingRunId.
C39_HistoryKeepsActiveRun ==
  [][\A key \in SessionKeys, hist \in Histories :
       LET chat == sessionChats[key]
           i == MostRecent(chat.messages, chat.streamingRunId)
       IN (/\ HistoryLoaded(key, hist)
           /\ chat.streaming
           /\ chat.streamingRunId # ""
           /\ i > 0
           /\ chat.messages[i].partial) =>
            /\ sessionChats'[key].streaming
            /\ sessionChats'[key].streamingRunId = chat.streamingRunId
            /\ \E j \in 1..Len(sessionChats'[key].messages) :
                 sessionChats'[key].messages[j] = chat.messages[i]]_vars

C35_WitnessAborted ==
  /\ \E i \in Issued : req[i].method = "chat.abort" /\ req[i].ws # 0
  /\ ~sessionChats["A"].streaming
  /\ Len(sessionChats["A"].messages) = 1
  /\ sessionChats["A"].messages[1].aborted
====
